---- MODULE Spec2Model ----
(***************************************************************************)
(* A model of the raw array builder (src/raw/array_buf.rs) and of the      *)
(* serde helper functions (src/serde_helpers.rs) of the bson crate.        *)
(*                                                                         *)
(* Representation                                                          *)
(*   - a byte buffer is a sequence of integers in 0..255;                  *)
(*   - an unsigned machine integer (u32, u64), and the bit pattern of a    *)
(*     signed one (i32, i64), is the set of the positions of its 1 bits:   *)
(*     {} is 0, {0} is 1, {53} is 2^53, 0..63 is u64::MAX;                 *)
(*   - a 64-bit double is [cls, neg, mag]: cls is "fin", "inf" or "nan",   *)
(*     neg the sign bit and mag the magnitude as the set of the binary     *)
(*     exponents of its 1 bits ({-1} is 0.5, {0, -52} is 1 + 2^-52).       *)
(***************************************************************************)
EXTENDS Integers, Sequences, FiniteSets, TLC

VARIABLES array, pushed, iter, call

vars == <<array, pushed, iter, call>>

\* Largest number of elements pushed onto one array.
MaxPush == 11

(***************************************************************************)
(* Generic helpers                                                         *)
(***************************************************************************)

SetMax(S) == CHOOSE x \in S : \A y \in S : y <= x

SetMin(S) == CHOOSE x \in S : \A y \in S : x <= y

(***************************************************************************)
(* Raw values and their wire encoding                                      *)
(***************************************************************************)

\* RawBson values pushed in the documentation examples: an i32 and a string.
Int32(v) == [type |-> "Int32", i |-> v, s |-> <<>>]

String(bytes) == [type |-> "String", i |-> 0, s |-> bytes]

\* An embedded document, or an embedded array (type "Array"), as its bytes.
Document(type, bytes) == [type |-> type, i |-> 0, s |-> bytes]

\* The values the model pushes: 12_i32 and the one-letter string "a".
Values == {Int32(12), String(<<97>>)}

\* i32::to_le_bytes of a non-negative i32.
to_le_bytes(n) ==
    << n % 256, (n \div 256) % 256, (n \div 65536) % 256, (n \div 16777216) % 256 >>

\* i32::from_le_bytes: two's complement, the top byte carries the sign.
from_le_bytes(b) ==
    b[1] + 256 * b[2] + 65536 * b[3]
      + 16777216 * (IF b[4] >= 128 THEN b[4] - 256 ELSE b[4])

\* The one-byte type tag of an element (string = 0x02, document = 0x03,
\* array = 0x04, int32 = 0x10).
element_type(value) ==
    CASE value.type = "String" -> 2
      [] value.type = "Document" -> 3
      [] value.type = "Array" -> 4
      [] OTHER -> 16

\* The value payload: int32 is 4 bytes little-endian; a string is
\* int32 byteLength-including-null | bytes | 0x00; a document or an array
\* is its own bytes.
value_bytes(value) ==
    CASE value.type = "String" ->
           to_le_bytes(Len(value.s) + 1) \o value.s \o <<0>>
      [] value.type \in {"Document", "Array"} -> value.s
      [] OTHER -> to_le_bytes(value.i)

\* RawDocumentBuf::new(): the empty document, length prefix 5 and terminator.
RawDocumentBuf_new == <<5, 0, 0, 0, 0>>

\* A faulty variant of append: the element is inserted but the prefix is not rewritten.
append_stale_prefix(data, key, value) ==
    SubSeq(data, 1, Len(data) - 1)
      \o <<element_type(value)>> \o key \o <<0>> \o value_bytes(value) \o <<0>>

\* RawDocumentBuf::append: the element's bytes go immediately before the
\* terminator byte, then the 4-byte length prefix is rewritten.
append(data, key, value) ==
    LET inserted == SubSeq(data, 1, Len(data) - 1)
                      \o <<element_type(value)>> \o key \o <<0>>
                      \o value_bytes(value) \o <<0>>
    IN  to_le_bytes(Len(inserted)) \o SubSeq(inserted, 5, Len(inserted))

(***************************************************************************)
(* RawArrayBuf                                                             *)
(***************************************************************************)

\* A faulty variant of to_string: the digits are emitted without the ASCII offset.
RECURSIVE to_string_raw_digits(_)
to_string_raw_digits(n) ==
    IF n < 10 THEN <<n>> ELSE to_string_raw_digits(n \div 10) \o <<n % 10>>

\* usize::to_string: the decimal digits in ASCII, most significant first.
RECURSIVE to_string(_)
to_string(n) ==
    IF n < 10 THEN <<48 + n>> ELSE to_string(n \div 10) \o <<48 + (n % 10)>>

\* CString::from_string_unchecked: wraps the string without looking at it.
from_string_unchecked(s) == s

\* RawArrayBuf::new()
new == [inner |-> RawDocumentBuf_new, len |-> 0]

\* A faulty variant of push: the count is not incremented.
push_no_increment(self, value) ==
    [inner |-> append(self.inner, from_string_unchecked(to_string(self.len)), value),
     len   |-> self.len]

\* A faulty variant of push: the element is appended to a fresh document.
push_onto_fresh(self, value) ==
    [inner |-> append(RawDocumentBuf_new, from_string_unchecked(to_string(self.len)), value),
     len   |-> self.len + 1]

\* RawArrayBuf::push: append under the key len.to_string(), then len += 1.
push(self, value) ==
    [inner |-> append(self.inner, from_string_unchecked(to_string(self.len)), value),
     len   |-> self.len + 1]

\* AsRef<RawArray> for RawArrayBuf: the array view over the inner document.
as_ref(self) == self.inner

(***************************************************************************)
(* Raw iteration (the Raw View of the specification, sections 4.1 and 6)   *)
(***************************************************************************)

\* The byte at a 0-based offset.
At(doc, off) == doc[off + 1]

\* The offsets from `from` at which the byte is 0x00.
NullsFrom(doc, from) == {o \in from .. (Len(doc) - 1) : At(doc, o) = 0}

NoneItem == [kind |-> "None", key |-> <<>>, value |-> Int32(0)]

ErrItem == [kind |-> "Err", key |-> <<>>, value |-> Int32(0)]

OkItem(key, value) == [kind |-> "Ok", key |-> key, value |-> value]

\* The iterator of a view: a cursor and the flag cleared by the first error.
RawIter_new == [offset |-> 4, valid |-> TRUE]

\* One step of the iterator over doc: validates exactly one element.
\* Returns the item and the iterator afterwards.
RawIter_next(doc, it) ==
    LET fail == [item |-> ErrItem, it |-> [offset |-> it.offset, valid |-> FALSE]]
        stop == [item |-> NoneItem, it |-> it]
    IN
    IF ~it.valid THEN stop
    ELSE IF it.offset = Len(doc) - 1
    THEN (IF At(doc, it.offset) = 0 THEN stop ELSE fail)
    ELSE IF it.offset >= Len(doc) THEN fail
    ELSE IF NullsFrom(doc, it.offset + 1) = {} THEN fail
    ELSE
      LET tag    == At(doc, it.offset)
          keyEnd == SetMin(NullsFrom(doc, it.offset + 1))
          key    == SubSeq(doc, it.offset + 2, keyEnd)
          vs     == keyEnd + 1
      IN
      IF tag = 16
      THEN (IF vs + 4 > Len(doc) - 1 THEN fail
            ELSE [item |-> OkItem(key, Int32(from_le_bytes(SubSeq(doc, vs + 1, vs + 4)))),
                  it   |-> [offset |-> vs + 4, valid |-> TRUE]])
      ELSE IF tag = 2
      THEN (IF vs + 4 > Len(doc) - 1 THEN fail
            ELSE LET n == from_le_bytes(SubSeq(doc, vs + 1, vs + 4))
                 IN  IF n < 1 \/ vs + 4 + n > Len(doc) - 1 THEN fail
                     ELSE IF At(doc, vs + 4 + n - 1) # 0 THEN fail
                     ELSE [item |-> OkItem(key, String(SubSeq(doc, vs + 5, vs + 4 + n - 1))),
                           it   |-> [offset |-> vs + 4 + n, valid |-> TRUE]])
      ELSE IF tag \in {3, 4}
      THEN (IF vs + 4 > Len(doc) - 1 THEN fail
            ELSE LET n == from_le_bytes(SubSeq(doc, vs + 1, vs + 4))
                 IN  IF n < 5 \/ vs + n > Len(doc) - 1 THEN fail
                     ELSE IF At(doc, vs + n - 1) # 0 THEN fail
                     ELSE [item |-> OkItem(key, Document(IF tag = 3 THEN "Document"
                                                         ELSE "Array",
                                                         SubSeq(doc, vs + 1, vs + n))),
                           it   |-> [offset |-> vs + n, valid |-> TRUE]])
      ELSE fail

\* A faulty variant of RawArrayIter::next: the iterator stays usable after
\* an error.
RawArrayIter_next_after_error(doc, it) ==
    LET r == RawIter_next(doc, [it EXCEPT !.valid = TRUE])
    IN  [item |-> [kind |-> r.item.kind, value |-> r.item.value],
         it |-> [r.it EXCEPT !.valid = TRUE]]

\* RawArrayIter::next: the element's value, the key dropped.
RawArrayIter_next(doc, it) ==
    LET r == RawIter_next(doc, it)
    IN  [item |-> [kind |-> r.item.kind, value |-> r.item.value], it |-> r.it]

\* IntoIterator for &RawArrayBuf: self.as_ref().into_iter()
into_iter(self) == [doc |-> as_ref(self), it |-> RawIter_new]

\* All elements of a document, read by running the iterator to its end:
\* the sequence of items up to and including the first error.
RECURSIVE Elements(_, _)
Elements(doc, it) ==
    LET r == RawIter_next(doc, it)
    IN  IF r.item.kind = "None" THEN <<>>
        ELSE <<r.item>> \o Elements(doc, r.it)

(***************************************************************************)
(* The array builder as a state machine                                    *)
(***************************************************************************)

NoIter == [active |-> FALSE, doc |-> <<>>, it |-> RawIter_new,
           yielded |-> <<>>, ended |-> FALSE]

NoCall == [op |-> "none"]

InitArray ==
    /\ array = new
    /\ pushed = <<>>
    /\ iter = NoIter
    /\ call = NoCall

\* array.push(value); the borrow checker allows it only while no iterator
\* over the array is alive.
Push ==
    /\ ~iter.active
    /\ array.len < MaxPush
    /\ \E value \in Values :
         /\ array' = push(array, value)
         /\ pushed' = Append(pushed, value)
    /\ UNCHANGED <<iter, call>>

\* let mut iter = array.into_iter();
IntoIter ==
    /\ ~iter.active
    /\ LET i == into_iter(array)
       IN  iter' = [active |-> TRUE, doc |-> i.doc, it |-> i.it,
                    yielded |-> <<>>, ended |-> FALSE]
    /\ UNCHANGED <<array, pushed, call>>

\* iter.next()
IterNext ==
    /\ iter.active
    /\ LET r == RawArrayIter_next(iter.doc, iter.it)
       IN  iter' = [iter EXCEPT
                      !.it = r.it,
                      !.yielded = IF r.item.kind = "None" THEN @ ELSE Append(@, r.item),
                      !.ended = (r.item.kind = "None")]
    /\ UNCHANGED <<array, pushed, call>>

\* The iterator goes out of scope.
DropIter ==
    /\ iter.active
    /\ iter' = NoIter
    /\ UNCHANGED <<array, pushed, call>>

NextArray == Push \/ IntoIter \/ IterNext \/ DropIter

SpecArray == InitArray /\ [][NextArray]_vars

(***************************************************************************)
(* Machine integers as sets of bit positions                               *)
(***************************************************************************)

\* Inputs carry up to this many arbitrary low bits besides a run of 1 bits.
MaxLowBits == 1

U32_MAX == 0 .. 31

U64_MAX == 0 .. 63

I32_MAX == 0 .. 30

I64_MAX == 0 .. 62

\* a < b, as unsigned integers: the highest bit in which they differ is b's.
Less(a, b) == a # b /\ SetMax((a \ b) \cup (b \ a)) \in b

\* a + b, binary addition: a carry enters position p when a lower position
\* q generates one (both bits set) and every position between q and p passes
\* it on (at least one bit set).
MagAdd(a, b) ==
    IF a \cup b = {} THEN {}
    ELSE
      LET carry(p) == \E q \in a \cap b :
                        q < p /\ \A r \in (q + 1) .. (p - 1) : r \in a \cup b
      IN  {p \in SetMin(a \cup b) .. (SetMax(a \cup b) + 1) :
             ((p \in a) # (p \in b)) # carry(p)}

\* a - b for a >= b, binary subtraction: a borrow is taken from position p
\* when a lower position q asks for one (b's bit set, a's clear) and no
\* position between q and p can give it (a's bit set, b's clear).
MagSub(a, b) ==
    IF a \cup b = {} THEN {}
    ELSE
      LET borrow(p) == \E q \in b \ a :
                         q < p /\ \A r \in (q + 1) .. (p - 1) : r \notin a \ b
      IN  {p \in SetMin(a \cup b) .. SetMax(a \cup b) :
             ((p \in a) # (p \in b)) # borrow(p)}

\* What a helper returns: Ok with the serializer method it called (or
\* "return" for a decoded value) and the value passed, or an error.
Ok(method, val) == [tag |-> "Ok", method |-> method, val |-> val]

Err == [tag |-> "Err", method |-> "none", val |-> {}]

Pending == [tag |-> "Pending", method |-> "none", val |-> {}]

\* The unsigned integers the helpers are called with: every run of 1 bits
\* lo..hi within the width (the empty run is 0), with every choice of the
\* lowest MaxLowBits bits added.  2^53 + 1 is {53} with bit 0 added.
UIntInputs(width) ==
    { (lo .. hi) \cup low :
        lo \in 0 .. (width - 1), hi \in -1 .. (width - 1),
        low \in SUBSET (0 .. (MaxLowBits - 1)) }

(***************************************************************************)
(* serialize_u32_as_i32, serialize_u32_as_i64, serialize_u64_as_i32,       *)
(* serialize_u64_as_i64                                                    *)
(***************************************************************************)

\* i32::try_from(u32 or u64): fails above i32::MAX.
i32_try_from(val) == IF Less(I32_MAX, val) THEN Err ELSE Ok("i32", val)

\* A faulty variant of i64::try_from: the bound is not tested.
i64_try_from_unchecked(val) == Ok("i64", val)

\* i64::try_from(u64): fails above i64::MAX.
i64_try_from(val) == IF Less(I64_MAX, val) THEN Err ELSE Ok("i64", val)

\* `val as i32`: the low 32 bits, reinterpreted (bit 31 is the sign).
as_i32(val) == val \cap (0 .. 31)

\* `val as i64`: the low 64 bits, reinterpreted (bit 63 is the sign); a u32
\* is zero-extended.
as_i64(val) == val \cap (0 .. 63)

\* Serializer::serialize_i32 / serialize_i64 as called by a helper.
serialize_i32(v) == Ok("serialize_i32", v)

serialize_i64(v) == Ok("serialize_i64", v)

\* A faulty variant of serialize_u32_as_i32: a wrapping `as i32` cast.
serialize_u32_as_i32_wrapping(val) == serialize_i32(as_i32(val))

serialize_u32_as_i32(val) ==
    LET r == i32_try_from(val)
    IN  IF r.tag = "Ok" THEN serialize_i32(r.val) ELSE Err

serialize_u32_as_i64(val) == serialize_i64(as_i64(val))

serialize_u64_as_i32(val) ==
    LET r == i32_try_from(val)
    IN  IF r.tag = "Ok" THEN serialize_i32(r.val) ELSE Err

\* A faulty variant of serialize_u64_as_i64: a wrapping `as i64` cast.
serialize_u64_as_i64_wrapping(val) == serialize_i64(as_i64(val))

serialize_u64_as_i64(val) ==
    LET r == i64_try_from(val)
    IN  IF r.tag = "Ok" THEN serialize_i64(r.val) ELSE Err

\* An argument of a helper: an unsigned integer to serialize (v), or what
\* the inner deserializer returned to a deserialize helper (got).
NoGot == [tag |-> "None"]

U32Arg(v) == [kind |-> "u32", v |-> v, got |-> NoGot]

U64Arg(v) == [kind |-> "u64", v |-> v, got |-> NoGot]

IntArgs ==
    {U32Arg(v) : v \in UIntInputs(32)} \cup {U64Arg(v) : v \in UIntInputs(64)}

\* A helper call: op is the helper called last, arg its argument, out what
\* a serialize helper returned, back what a deserialize helper returned, and
\* via the serialize helper whose output the deserialize helper was given
\* ("none" when it decoded arg itself).
NewCall(a) ==
    [op |-> "none", via |-> "none", arg |-> a, out |-> Pending, back |-> Pending]

\* A field value about to be serialized with one of the helpers.
InitInt ==
    /\ array = new
    /\ pushed = <<>>
    /\ iter = NoIter
    /\ \E a \in IntArgs : call = NewCall(a)

SerializeU32AsI32 ==
    /\ call.op = "none" /\ call.arg.kind = "u32"
    /\ call' = [call EXCEPT !.op = "serialize_u32_as_i32",
                            !.out = serialize_u32_as_i32(call.arg.v)]
    /\ UNCHANGED <<array, pushed, iter>>

SerializeU32AsI64 ==
    /\ call.op = "none" /\ call.arg.kind = "u32"
    /\ call' = [call EXCEPT !.op = "serialize_u32_as_i64",
                            !.out = serialize_u32_as_i64(call.arg.v)]
    /\ UNCHANGED <<array, pushed, iter>>

SerializeU64AsI32 ==
    /\ call.op = "none" /\ call.arg.kind = "u64"
    /\ call' = [call EXCEPT !.op = "serialize_u64_as_i32",
                            !.out = serialize_u64_as_i32(call.arg.v)]
    /\ UNCHANGED <<array, pushed, iter>>

SerializeU64AsI64 ==
    /\ call.op = "none" /\ call.arg.kind = "u64"
    /\ call' = [call EXCEPT !.op = "serialize_u64_as_i64",
                            !.out = serialize_u64_as_i64(call.arg.v)]
    /\ UNCHANGED <<array, pushed, iter>>

NextInt ==
    \/ SerializeU32AsI32
    \/ SerializeU32AsI64
    \/ SerializeU64AsI32
    \/ SerializeU64AsI64

SpecInt == InitInt /\ [][NextInt]_vars

(***************************************************************************)
(* 64-bit doubles and the casts between u64 and f64                        *)
(***************************************************************************)

\* The lowest binary exponent of the fractional inputs (as a count below 0).
MaxFracBits == 54

\* f64: 52 explicit mantissa bits (53 significant bits), the exponent of the
\* smallest subnormal, and the exponent of the largest finite binade.
F64_MANTISSA_BITS == 52

F64_MIN_EXP == -1074

F64_MAX_EXP == 1023

Fin(neg, mag) == [cls |-> "fin", neg |-> neg, mag |-> mag]

Inf(neg) == [cls |-> "inf", neg |-> neg, mag |-> {}]

NaN == [cls |-> "nan", neg |-> FALSE, mag |-> {}]

\* f64::EPSILON = 2^-52
EPSILON == Fin(FALSE, {-F64_MANTISSA_BITS})

\* The double nearest to the exact magnitude mag (ties to even): the bits
\* below the 53rd significant one (or below the subnormal exponent) are
\* dropped, and the kept part is incremented when they exceed half a unit,
\* or are exactly half and the kept part is odd.
F64Round(neg, mag) ==
    IF mag = {} THEN Fin(neg, {})
    ELSE
      LET hi   == SetMax(mag)
          cut  == IF hi - F64_MANTISSA_BITS > F64_MIN_EXP
                  THEN hi - F64_MANTISSA_BITS ELSE F64_MIN_EXP
          kept == {p \in mag : p >= cut}
          rest == mag \ kept
          up   == (cut - 1) \in rest /\ (rest # {cut - 1} \/ cut \in kept)
          r    == IF up THEN MagAdd(kept, {cut}) ELSE kept
      IN  IF r # {} /\ SetMax(r) > F64_MAX_EXP THEN Inf(neg) ELSE Fin(neg, r)

\* `val as f64` for an unsigned integer: round to nearest, ties to even.
uint_as_f64(val) == F64Round(FALSE, val)

\* `f as u64`: truncates toward zero and saturates; NaN becomes 0.
f64_as_u64(f) ==
    IF f.cls = "nan" THEN {}
    ELSE IF f.neg THEN {}
    ELSE IF f.cls = "inf" THEN U64_MAX
    ELSE IF f.mag = {} THEN {}
    ELSE IF SetMax(f.mag) > 63 THEN U64_MAX
    ELSE {p \in f.mag : p >= 0}

\* a - b in f64 arithmetic.
F64Sub(a, b) ==
    IF a.cls = "nan" \/ b.cls = "nan" THEN NaN
    ELSE IF a.cls = "inf" /\ b.cls = "inf"
    THEN (IF a.neg = b.neg THEN NaN ELSE a)
    ELSE IF a.cls = "inf" THEN a
    ELSE IF b.cls = "inf" THEN Inf(~b.neg)
    ELSE IF a.neg # b.neg THEN F64Round(a.neg, MagAdd(a.mag, b.mag))
    ELSE IF a.mag = b.mag THEN Fin(FALSE, {})
    ELSE IF Less(b.mag, a.mag) THEN F64Round(a.neg, MagSub(a.mag, b.mag))
    ELSE F64Round(~a.neg, MagSub(b.mag, a.mag))

\* f64::abs
F64Abs(a) == [a EXCEPT !.neg = FALSE]

\* a <= b on doubles: false when either is NaN; -0.0 equals 0.0.
F64Le(a, b) ==
    IF a.cls = "nan" \/ b.cls = "nan" THEN FALSE
    ELSE IF a.cls = "fin" /\ b.cls = "fin" /\ a.mag = {} /\ b.mag = {} THEN TRUE
    ELSE IF a.neg /\ ~b.neg THEN TRUE
    ELSE IF ~a.neg /\ b.neg THEN FALSE
    ELSE LET lo == IF a.neg THEN b ELSE a
             hi == IF a.neg THEN a ELSE b
         IN  IF hi.cls = "inf" THEN TRUE
             ELSE IF lo.cls = "inf" THEN FALSE
             ELSE ~Less(hi.mag, lo.mag)

\* a == b on doubles.
F64Eq(a, b) == F64Le(a, b) /\ F64Le(b, a)

(***************************************************************************)
(* u64_as_f64                                                              *)
(***************************************************************************)

serialize_f64(f) == Ok("serialize_f64", f)

\* A faulty variant of u64_as_f64::serialize: the `val < &u64::MAX` test is missing.
u64_as_f64_serialize_no_max_test(val) ==
    IF val = f64_as_u64(uint_as_f64(val))
    THEN serialize_f64(uint_as_f64(val))
    ELSE Err

\* u64_as_f64::serialize
u64_as_f64_serialize(val) ==
    IF Less(val, U64_MAX) /\ val = f64_as_u64(uint_as_f64(val))
    THEN serialize_f64(uint_as_f64(val))
    ELSE Err

\* u64_as_f64::deserialize; `got` is what f64::deserialize(deserializer)
\* returned, an error being passed on by the `?`.
u64_as_f64_deserialize(got) ==
    IF got.tag = "Err" THEN Err
    ELSE LET f == got.val
         IN  IF F64Le(F64Abs(F64Sub(f, uint_as_f64(f64_as_u64(f)))), EPSILON)
             THEN Ok("return", f64_as_u64(f))
             ELSE Err

\* `f as u32`: truncates toward zero and saturates; NaN becomes 0.
f64_as_u32(f) ==
    IF f.cls = "nan" THEN {}
    ELSE IF f.neg THEN {}
    ELSE IF f.cls = "inf" THEN U32_MAX
    ELSE IF f.mag = {} THEN {}
    ELSE IF SetMax(f.mag) > 31 THEN U32_MAX
    ELSE {p \in f.mag : p >= 0}

\* u32_as_f64::serialize
u32_as_f64_serialize(val) == serialize_f64(uint_as_f64(val))

\* A faulty variant of u32_as_f64::deserialize: the double is cast with
\* `f as i32 as u32`, which saturates at i32::MAX.
u32_as_f64_deserialize_through_i32(got) ==
    IF got.tag = "Err" THEN Err
    ELSE LET f == got.val
             n == IF f64_as_u32(f) # {} /\ SetMax(f64_as_u32(f)) > 30
                  THEN I32_MAX ELSE f64_as_u32(f)
         IN  IF F64Le(F64Abs(F64Sub(f, uint_as_f64(n))), EPSILON)
             THEN Ok("return", n)
             ELSE Err

\* u32_as_f64::deserialize; `got` is what f64::deserialize(deserializer)
\* returned, an error being passed on by the `?`.
u32_as_f64_deserialize(got) ==
    IF got.tag = "Err" THEN Err
    ELSE LET f == got.val
         IN  IF F64Le(F64Abs(F64Sub(f, uint_as_f64(f64_as_u32(f)))), EPSILON)
             THEN Ok("return", f64_as_u32(f))
             ELSE Err

\* The binary exponents of the doubles given to deserialize: from 2^-54 up
\* to 2^66, the smallest subnormals and the largest binade.
F64Exps ==
    ((-MaxFracBits) .. 66) \cup {F64_MIN_EXP, F64_MIN_EXP + 1, F64_MAX_EXP}

\* Their magnitudes: every run of 1 bits and every pair of 1 bits that fits
\* the 53 significant bits of a double.
F64Mags ==
    LET spans == {sp \in F64Exps \X F64Exps :
                    sp[1] <= sp[2] /\ sp[2] - sp[1] <= F64_MANTISSA_BITS}
    IN  {sp[1] .. sp[2] : sp \in spans} \cup {{sp[1], sp[2]} : sp \in spans}
          \cup {{}}

F64Inputs ==
    {Fin(neg, m) : neg \in BOOLEAN, m \in F64Mags}
      \cup {Inf(FALSE), Inf(TRUE), NaN}

\* What f64::deserialize(deserializer) returned: a double, or an error.
GotOk(f) == [tag |-> "Ok", val |-> f]

GotErr == [tag |-> "Err"]

F64Arg(got) == [kind |-> "f64", v |-> {}, got |-> got]

F64Args ==
    {U64Arg(v) : v \in UIntInputs(64)}
      \cup {U32Arg(v) : v \in UIntInputs(32)}
      \cup {F64Arg(GotOk(f)) : f \in F64Inputs}
      \cup {F64Arg(GotErr)}

\* A u64 or u32 field about to be serialized, or what the deserializer
\* holds for a field about to be deserialized.
InitF64 ==
    /\ array = new
    /\ pushed = <<>>
    /\ iter = NoIter
    /\ \E a \in F64Args : call = NewCall(a)

U64AsF64Serialize ==
    /\ call.op = "none" /\ call.arg.kind = "u64"
    /\ call' = [call EXCEPT !.op = "u64_as_f64::serialize",
                            !.out = u64_as_f64_serialize(call.arg.v)]
    /\ UNCHANGED <<array, pushed, iter>>

\* u64_as_f64::deserialize, of a double held by the deserializer or of the
\* double that u64_as_f64::serialize emitted.
U64AsF64Deserialize ==
    /\ \/ /\ call.op = "none" /\ call.arg.kind = "f64"
          /\ call' = [call EXCEPT !.op = "u64_as_f64::deserialize",
                                  !.back = u64_as_f64_deserialize(call.arg.got)]
       \/ /\ call.op = "u64_as_f64::serialize" /\ call.out.tag = "Ok"
          /\ call' = [call EXCEPT !.op = "u64_as_f64::deserialize",
                                  !.via = call.op,
                                  !.back = u64_as_f64_deserialize(GotOk(call.out.val))]
    /\ UNCHANGED <<array, pushed, iter>>

U32AsF64Serialize ==
    /\ call.op = "none" /\ call.arg.kind = "u32"
    /\ call' = [call EXCEPT !.op = "u32_as_f64::serialize",
                            !.out = u32_as_f64_serialize(call.arg.v)]
    /\ UNCHANGED <<array, pushed, iter>>

U32AsF64Deserialize ==
    /\ \/ /\ call.op = "none" /\ call.arg.kind = "f64"
          /\ call' = [call EXCEPT !.op = "u32_as_f64::deserialize",
                                  !.back = u32_as_f64_deserialize(call.arg.got)]
       \/ /\ call.op = "u32_as_f64::serialize" /\ call.out.tag = "Ok"
          /\ call' = [call EXCEPT !.op = "u32_as_f64::deserialize",
                                  !.via = call.op,
                                  !.back = u32_as_f64_deserialize(GotOk(call.out.val))]
    /\ UNCHANGED <<array, pushed, iter>>

NextF64 ==
    \/ U64AsF64Serialize
    \/ U64AsF64Deserialize
    \/ U32AsF64Serialize
    \/ U32AsF64Deserialize

SpecF64 == InitF64 /\ [][NextF64]_vars

(***************************************************************************)
(* timestamp_as_u32 and u32_as_timestamp                                   *)
(***************************************************************************)

\* bson::Timestamp { time: u32, increment: u32 }
Timestamp(time, increment) == [time |-> time, increment |-> increment]

serialize_u32(v) == Ok("serialize_u32", v)

\* Bson::Timestamp(..).serialize(serializer)
serialize_timestamp(t) == Ok("serialize_timestamp", t)

\* A faulty variant of u32_as_timestamp::serialize: the value is put in the
\* increment and the time is 0.
u32_as_timestamp_serialize_as_increment(val) ==
    serialize_timestamp(Timestamp({}, val))

\* u32_as_timestamp::serialize
u32_as_timestamp_serialize(val) == serialize_timestamp(Timestamp(val, {}))

\* u32_as_timestamp::deserialize; `got` is what Timestamp::deserialize
\* returned, an error being passed on by the `?`.
u32_as_timestamp_deserialize(got) ==
    IF got.tag = "Err" THEN Err ELSE Ok("return", got.val.time)

\* A faulty variant of timestamp_as_u32::serialize: the increment is not looked at.
timestamp_as_u32_serialize_unchecked(val) == serialize_u32(val.time)

\* timestamp_as_u32::serialize
timestamp_as_u32_serialize(val) ==
    IF val.increment # {} THEN Err ELSE serialize_u32(val.time)

\* timestamp_as_u32::deserialize; `got` is what u32::deserialize returned.
timestamp_as_u32_deserialize(got) ==
    IF got.tag = "Err" THEN Err ELSE Ok("return", Timestamp(got.val, {}))

\* The increments of the timestamps: 0, 1, 2^31 and u32::MAX.
IncrementInputs == {{}, {0}, {31}, U32_MAX}

TsArg(t) == [kind |-> "timestamp", v |-> {}, ts |-> t, err |-> FALSE]

TsU32Arg(v) == [kind |-> "u32", v |-> v, ts |-> Timestamp({}, {}), err |-> FALSE]

\* The inner deserializer fails.
TsErrArg == [kind |-> "none", v |-> {}, ts |-> Timestamp({}, {}), err |-> TRUE]

TsArgs ==
    {TsArg(Timestamp(t, i)) : t \in UIntInputs(32), i \in IncrementInputs}
      \cup {TsU32Arg(v) : v \in UIntInputs(32)}
      \cup {TsErrArg}

\* A Timestamp or u32 field about to be serialized, or what the
\* deserializer holds for a field about to be deserialized.
InitTs ==
    /\ array = new
    /\ pushed = <<>>
    /\ iter = NoIter
    /\ \E a \in TsArgs : call = NewCall(a)

TimestampAsU32Serialize ==
    /\ call.op = "none" /\ call.arg.kind = "timestamp"
    /\ call' = [call EXCEPT !.op = "timestamp_as_u32::serialize",
                            !.out = timestamp_as_u32_serialize(call.arg.ts)]
    /\ UNCHANGED <<array, pushed, iter>>

\* Decodes the u32 the deserializer holds: the argument itself, or the u32
\* that timestamp_as_u32::serialize emitted.
TimestampAsU32Deserialize ==
    /\ \/ /\ call.op = "none" /\ call.arg.kind = "u32"
          /\ call' = [call EXCEPT
                        !.op = "timestamp_as_u32::deserialize",
                        !.back = timestamp_as_u32_deserialize(GotOk(call.arg.v))]
       \/ /\ call.op = "none" /\ call.arg.err
          /\ call' = [call EXCEPT
                        !.op = "timestamp_as_u32::deserialize",
                        !.back = timestamp_as_u32_deserialize(GotErr)]
       \/ /\ call.op = "timestamp_as_u32::serialize" /\ call.out.tag = "Ok"
          /\ call' = [call EXCEPT
                        !.op = "timestamp_as_u32::deserialize",
                        !.via = call.op,
                        !.back = timestamp_as_u32_deserialize(GotOk(call.out.val))]
    /\ UNCHANGED <<array, pushed, iter>>

U32AsTimestampSerialize ==
    /\ call.op = "none" /\ call.arg.kind = "u32"
    /\ call' = [call EXCEPT !.op = "u32_as_timestamp::serialize",
                            !.out = u32_as_timestamp_serialize(call.arg.v)]
    /\ UNCHANGED <<array, pushed, iter>>

\* Decodes the Timestamp the deserializer holds: the argument itself, or
\* the Timestamp that u32_as_timestamp::serialize emitted.
U32AsTimestampDeserialize ==
    /\ \/ /\ call.op = "none" /\ call.arg.kind = "timestamp"
          /\ call' = [call EXCEPT
                        !.op = "u32_as_timestamp::deserialize",
                        !.back = u32_as_timestamp_deserialize(GotOk(call.arg.ts))]
       \/ /\ call.op = "none" /\ call.arg.err
          /\ call' = [call EXCEPT
                        !.op = "u32_as_timestamp::deserialize",
                        !.back = u32_as_timestamp_deserialize(GotErr)]
       \/ /\ call.op = "u32_as_timestamp::serialize" /\ call.out.tag = "Ok"
          /\ call' = [call EXCEPT
                        !.op = "u32_as_timestamp::deserialize",
                        !.via = call.op,
                        !.back = u32_as_timestamp_deserialize(GotOk(call.out.val))]
    /\ UNCHANGED <<array, pushed, iter>>

NextTs ==
    \/ TimestampAsU32Serialize
    \/ TimestampAsU32Deserialize
    \/ U32AsTimestampSerialize
    \/ U32AsTimestampDeserialize

SpecTs == InitTs /\ [][NextTs]_vars

(***************************************************************************)
(* datetime::FromI64 and datetime::AsRfc3339String                         *)
(***************************************************************************)

\* An i64 is the set of the 1 bits of its two's complement: bit 63 is the
\* sign.  a < b as signed integers.
SLess(a, b) == IF (63 \in a) # (63 \in b) THEN 63 \in a ELSE Less(a, b)

\* 0000-01-01T00:00:00Z and 9999-12-31T23:59:59.999Z in milliseconds since
\* the epoch (-62167219200000 and 253402300799999): the instants an RFC 3339
\* string can denote.
RFC3339_MIN ==
    {13, 15, 16, 17, 19, 20, 21, 22, 23, 28, 31, 32, 34, 36, 37, 38, 40, 41,
     42} \cup (46 .. 63)

RFC3339_MAX ==
    (0 .. 9) \cup {11, 12} \cup (14 .. 20) \cup {25, 28} \cup (30 .. 34)
      \cup {36, 37, 38, 41, 42, 45, 46, 47}

\* DateTime::from_millis
from_millis(date) == [millis |-> date]

\* DateTime::timestamp_millis
timestamp_millis(self) == self.millis

\* DateTime::try_to_rfc3339_string: an error outside the years 0000..9999;
\* the string is represented by the instant it denotes.
try_to_rfc3339_string(self) ==
    IF SLess(self.millis, RFC3339_MIN) \/ SLess(RFC3339_MAX, self.millis)
    THEN [tag |-> "Err", val |-> {}]
    ELSE [tag |-> "Ok", val |-> self.millis]

\* DateTime as Serialize: the date-time element, its payload the eight
\* little-endian bytes of the millisecond count.
serialize_datetime(date) ==
    LET byte(k) == LET bit(j) == IF 8 * (k - 1) + j \in date.millis
                                 THEN 2 ^ j ELSE 0
                   IN  bit(0) + bit(1) + bit(2) + bit(3) + bit(4) + bit(5)
                         + bit(6) + bit(7)
    IN  Ok("serialize_datetime", [k \in 1 .. 8 |-> byte(k)])

\* DateTime::deserialize over such a payload.
deserialize_datetime(bytes) ==
    [tag |-> "Ok",
     val |-> from_millis({p \in 0 .. 63 :
                            (bytes[(p \div 8) + 1] \div (2 ^ (p % 8))) % 2 = 1})]

\* A faulty variant of FromI64's SerializeAs: an i64 that has no RFC 3339
\* string is refused.
FromI64_serialize_as_checked(value) ==
    IF try_to_rfc3339_string(from_millis(value)).tag = "Err" THEN Err
    ELSE serialize_datetime(from_millis(value))

\* SerializeAs<i64> for FromI64: Ok(DateTime::from_millis(*value)), then
\* the DateTime is serialized.
FromI64_serialize_as(value) ==
    LET date == [tag |-> "Ok", val |-> from_millis(value)]
    IN  IF date.tag = "Err" THEN Err ELSE serialize_datetime(date.val)

\* DeserializeAs<i64> for FromI64: DateTime::deserialize(deserializer)?,
\* then Ok(date.timestamp_millis()).
FromI64_deserialize_as(got) ==
    IF got.tag = "Err" THEN Err
    ELSE Ok("return", timestamp_millis(got.val))

\* SerializeAs<DateTime> for AsRfc3339String: the error of
\* try_to_rfc3339_string becomes the serializer's error, and a string is
\* serialized otherwise.
AsRfc3339String_serialize_as(date) ==
    LET string == try_to_rfc3339_string(date)
    IN  IF string.tag = "Err" THEN Err ELSE Ok("serialize_str", string.val)

\* An i64 field, or a DateTime field of as many milliseconds, about to be
\* serialized: runs of 1 bits (0, -1, i64::MIN and i64::MAX among them) and
\* the bounds of the RFC 3339 range with their neighbours.
InitDateTime ==
    /\ array = new
    /\ pushed = <<>>
    /\ iter = NoIter
    /\ \E m \in UIntInputs(64)
                  \cup {RFC3339_MIN, RFC3339_MAX,
                        MagAdd(RFC3339_MAX, {0}), MagSub(RFC3339_MIN, {0})} :
         call = NewCall([kind |-> "i64", v |-> m, got |-> NoGot])

FromI64Serialize ==
    /\ call.op = "none"
    /\ call' = [call EXCEPT !.op = "datetime::FromI64::serialize_as",
                            !.out = FromI64_serialize_as(call.arg.v)]
    /\ UNCHANGED <<array, pushed, iter>>

\* Deserializes the DateTime that FromI64 emitted.
FromI64Deserialize ==
    /\ call.op = "datetime::FromI64::serialize_as" /\ call.out.tag = "Ok"
    /\ call' = [call EXCEPT
                  !.op = "datetime::FromI64::deserialize_as",
                  !.via = call.op,
                  !.back = FromI64_deserialize_as(deserialize_datetime(call.out.val))]
    /\ UNCHANGED <<array, pushed, iter>>

AsRfc3339StringSerialize ==
    /\ call.op = "none"
    /\ call' = [call EXCEPT
                  !.op = "datetime::AsRfc3339String::serialize_as",
                  !.out = AsRfc3339String_serialize_as(from_millis(call.arg.v))]
    /\ UNCHANGED <<array, pushed, iter>>

NextDateTime == FromI64Serialize \/ FromI64Deserialize \/ AsRfc3339StringSerialize

SpecDateTime == InitDateTime /\ [][NextDateTime]_vars

(***************************************************************************)
(* Legacy UUID helpers                                                     *)
(***************************************************************************)

\* The UUID inputs are offset by 0 .. MaxUuidOffset.
MaxUuidOffset == 3

\* BinarySubtype::Generic, BinarySubtype::UuidOld, BinarySubtype::Uuid
Generic == "Generic"

UuidOld == "UuidOld"

Uuid == "Uuid"

Binary(subtype, bytes) == [subtype |-> subtype, bytes |-> bytes]

\* bytes[from..to] reversed in place (1-based, inclusive).
ReverseRange(bytes, from, to) ==
    [k \in 1 .. Len(bytes) |->
       IF k >= from /\ k <= to THEN bytes[from + to - k] ELSE bytes[k]]

\* The byte order of a legacy representation; each is its own inverse.
\* Java reverses each 8-byte half, C# reverses the first 4, the next 2 and
\* the next 2 bytes, Python keeps the order.
LegacyOrder(bytes, rep) ==
    IF rep = "JavaLegacy"
    THEN ReverseRange(ReverseRange(bytes, 1, 8), 9, 16)
    ELSE IF rep = "CSharpLegacy"
    THEN ReverseRange(ReverseRange(ReverseRange(bytes, 1, 4), 5, 6), 7, 8)
    ELSE bytes

\* Binary::from_uuid_with_representation
from_uuid_with_representation(uuid, rep) ==
    IF rep = "Standard" THEN Binary(Uuid, uuid)
    ELSE Binary(UuidOld, LegacyOrder(uuid, rep))

\* Binary::to_uuid_with_representation: the subtype must be the one of the
\* representation and the payload 16 bytes long.
to_uuid_with_representation(binary, rep) ==
    IF rep # "Standard" /\ binary.subtype # UuidOld THEN [tag |-> "Err"]
    ELSE IF rep = "Standard" /\ binary.subtype # Uuid THEN [tag |-> "Err"]
    ELSE IF Len(binary.bytes) # 16 THEN [tag |-> "Err"]
    ELSE [tag |-> "Ok", val |-> LegacyOrder(binary.bytes, rep)]

\* binary.serialize(serializer)
serialize_binary(b) == Ok("serialize_binary", b)

\* as_legacy_binary_mod!: serialize
as_legacy_binary_mod_serialize(val, rep) ==
    LET binary == from_uuid_with_representation(val, rep)
    IN  serialize_binary(binary)

\* A faulty variant of as_legacy_binary_mod!: deserialize: the subtype of
\* the binary is not looked at, and a payload of 16 bytes is reordered
\* whatever the subtype.
as_legacy_binary_mod_deserialize_any_subtype(got, rep) ==
    IF got.tag = "Err" THEN Err
    ELSE IF Len(got.val.bytes) # 16 THEN Err
    ELSE Ok("return", LegacyOrder(got.val.bytes, rep))

\* as_legacy_binary_mod!: deserialize; `got` is what Binary::deserialize
\* returned, an error being passed on by the `?`, like the error of
\* to_uuid_with_representation.
as_legacy_binary_mod_deserialize(got, rep) ==
    IF got.tag = "Err" THEN Err
    ELSE LET uuid == to_uuid_with_representation(got.val, rep)
         IN  IF uuid.tag = "Err" THEN Err ELSE Ok("return", uuid.val)

\* A faulty variant of uuid_1_as_java_legacy_binary: the module is instantiated with
\* the Python representation.
uuid_1_as_java_legacy_binary_python_rep == "PythonLegacy"

\* The representation each helper module passes to as_legacy_binary_mod!.
uuid_1_as_java_legacy_binary == "JavaLegacy"

uuid_1_as_python_legacy_binary == "PythonLegacy"

uuid_1_as_c_sharp_legacy_binary == "CSharpLegacy"

\* The helper modules by name.
LegacyModules ==
    [uuid_1_as_java_legacy_binary     |-> uuid_1_as_java_legacy_binary,
     uuid_1_as_python_legacy_binary   |-> uuid_1_as_python_legacy_binary,
     uuid_1_as_c_sharp_legacy_binary  |-> uuid_1_as_c_sharp_legacy_binary]

\* The 16 bytes c, c + step, c + 2 step, ... (mod 256).
UuidOf(step, c) == [k \in 1 .. 16 |-> ((k - 1) * step + c) % 256]

\* 00112233-4455-6677-8899-aabbccddeeff
TestUuid == UuidOf(17, 0)

UuidInputs == {UuidOf(step, c) : step \in {0, 1, 17}, c \in 0 .. MaxUuidOffset}

\* The Binary values a deserializer may hold: 16 bytes under each subtype,
\* and a UuidOld payload one byte short.
BinaryInputs ==
    {Binary(st, u) : st \in {Generic, UuidOld, Uuid}, u \in UuidInputs}
      \cup {Binary(UuidOld, SubSeq(u, 1, 15)) : u \in UuidInputs}

UuidArg(u) == [kind |-> "uuid", uuid |-> u, binary |-> Binary(Generic, <<>>)]

BinaryArg(b) == [kind |-> "binary", uuid |-> <<>>, binary |-> b]

BinaryErrArg == [kind |-> "err", uuid |-> <<>>, binary |-> Binary(Generic, <<>>)]

UuidArgs ==
    {UuidArg(u) : u \in UuidInputs} \cup {BinaryArg(b) : b \in BinaryInputs}
      \cup {BinaryErrArg}

\* A Uuid field about to be serialized, or what the deserializer holds for
\* a field about to be deserialized.
InitUuid ==
    /\ array = new
    /\ pushed = <<>>
    /\ iter = NoIter
    /\ \E a \in UuidArgs : call = NewCall(a)

\* <module>::serialize(&uuid, serializer)
LegacySerialize(module) ==
    /\ call.op = "none" /\ call.arg.kind = "uuid"
    /\ call' = [call EXCEPT
                  !.op = module \o "::serialize",
                  !.out = as_legacy_binary_mod_serialize(call.arg.uuid,
                                                        LegacyModules[module])]
    /\ UNCHANGED <<array, pushed, iter>>

\* <module>::deserialize(deserializer): the deserializer holds the Binary of
\* the argument, or the Binary a legacy serialize helper emitted, or fails.
LegacyDeserialize(module) ==
    /\ \/ /\ call.op = "none" /\ call.arg.kind = "binary"
          /\ call' = [call EXCEPT
                        !.op = module \o "::deserialize",
                        !.back = as_legacy_binary_mod_deserialize(
                                   GotOk(call.arg.binary), LegacyModules[module])]
       \/ /\ call.op = "none" /\ call.arg.kind = "err"
          /\ call' = [call EXCEPT
                        !.op = module \o "::deserialize",
                        !.back = as_legacy_binary_mod_deserialize(
                                   GotErr, LegacyModules[module])]
       \/ /\ call.out.tag = "Ok"
          /\ call.via = "none"
          /\ call' = [call EXCEPT
                        !.op = module \o "::deserialize",
                        !.via = call.op,
                        !.back = as_legacy_binary_mod_deserialize(
                                   GotOk(call.out.val), LegacyModules[module])]
    /\ UNCHANGED <<array, pushed, iter>>

JavaLegacySerialize == LegacySerialize("uuid_1_as_java_legacy_binary")

PythonLegacySerialize == LegacySerialize("uuid_1_as_python_legacy_binary")

CSharpLegacySerialize == LegacySerialize("uuid_1_as_c_sharp_legacy_binary")

JavaLegacyDeserialize == LegacyDeserialize("uuid_1_as_java_legacy_binary")

PythonLegacyDeserialize == LegacyDeserialize("uuid_1_as_python_legacy_binary")

CSharpLegacyDeserialize == LegacyDeserialize("uuid_1_as_c_sharp_legacy_binary")

NextUuid ==
    \/ JavaLegacySerialize
    \/ PythonLegacySerialize
    \/ CSharpLegacySerialize
    \/ JavaLegacyDeserialize
    \/ PythonLegacyDeserialize
    \/ CSharpLegacyDeserialize

SpecUuid == InitUuid /\ [][NextUuid]_vars

(***************************************************************************)
(* HumanReadable, Utf8LossyDeserialization and the serde bridge            *)
(***************************************************************************)

\* Deepest nesting of the values serialized and deserialized.
MaxDepth == 3

HUMAN_READABLE_NEWTYPE == "$__bson_private_human_readable"

UTF8_LOSSY_NEWTYPE == "$__bson_private_utf8_lossy"

\* A value of a Serialize type, and (its payload left aside) the type
\* itself: kind is "u64", "str" or "datetime" for a leaf (n its integer, s
\* its bytes), "struct" (name, the field names keys and the fields kids),
\* "newtype" (a user's newtype struct called name around kids[1]),
\* "HumanReadable" or "Utf8LossyDeserialization" (around kids[1]).
Node(kind, name, n, s, keys, kids) ==
    [kind |-> kind, name |-> name, n |-> n, s |-> s, keys |-> keys,
     kids |-> kids]

HumanReadable(t) == Node("HumanReadable", "", {}, <<>>, <<>>, <<t>>)

Utf8LossyDeserialization(t) ==
    Node("Utf8LossyDeserialization", "", {}, <<>>, <<>>, <<t>>)

\* A faulty variant of HumanReadable's Serialize: the wrapped value is
\* serialized directly, without the marker newtype.
HumanReadable_serialize_unmarked(self) ==
    [call |-> "serialize", name |-> "", value |-> self.kids[1]]

\* impl Serialize for HumanReadable<T>: what it asks of the serializer.
HumanReadable_serialize(self) ==
    [call |-> "serialize_newtype_struct", name |-> HUMAN_READABLE_NEWTYPE,
     value |-> self.kids[1]]

\* A faulty variant of Utf8LossyDeserialization's Serialize: the value is
\* wrapped in the marker newtype, as its Deserialize expects to find it.
Utf8LossyDeserialization_serialize_marked(self) ==
    [call |-> "serialize_newtype_struct", name |-> UTF8_LOSSY_NEWTYPE,
     value |-> self.kids[1]]

\* impl Serialize for Utf8LossyDeserialization<T>: self.0.serialize(serializer)
Utf8LossyDeserialization_serialize(self) ==
    [call |-> "serialize", name |-> "", value |-> self.kids[1]]

\* The serializer at work on value, in human-readable mode or not (hr), at
\* the child position pos of the root value and under the field path.
\* It returns the calls made on it, each with the mode it was made in, the
\* Bson value built (out) and, on failure, the path of the field that
\* failed.  A newtype struct is transparent but for the name
\* HUMAN_READABLE_NEWTYPE, which turns the mode on for the wrapped value; a
\* struct becomes a document and stops at its first failing field; a u64
\* that an i64 does not hold fails; a date-time is its millisecond count in
\* the default mode and its formatted string in human-readable mode, where
\* it fails when try_to_rfc3339_string does.  The text of that string is not
\* spelled out: the String carries the name "RFC 3339" and, as n, the
\* instant it denotes.
RECURSIVE serialize(_, _, _, _)
serialize(value, hr, pos, path) ==
    LET ev(c, nm) == [call |-> c, name |-> nm, hr |-> hr, pos |-> pos,
                      n |-> value.n, s |-> value.s]
        ok(calls, out) ==
          [tag |-> "Ok", calls |-> calls, path |-> <<>>, out |-> out]
        err(calls, p) ==
          [tag |-> "Err", calls |-> calls, path |-> p,
           out |-> Node("Null", "", {}, <<>>, <<>>, <<>>)]
        leaf(c, kind, n, s) ==
          ok(<<ev(c, "")>>, Node(kind, "", n, s, <<>>, <<>>))
        string == try_to_rfc3339_string(from_millis(value.n))
        ask(req) ==
          LET inner == serialize(req.value,
                                 hr \/ req.name = HUMAN_READABLE_NEWTYPE,
                                 pos \o <<1>>, path)
          IN  IF req.call = "serialize" THEN inner
              ELSE [inner EXCEPT !.calls = <<ev(req.call, req.name)>> \o @]
        RECURSIVE fields(_, _, _)
        fields(i, calls, outs) ==
          IF i > Len(value.kids)
          THEN ok(calls \o <<ev("end", value.name)>>,
                  Node("Document", "", {}, <<>>, value.keys, outs))
          ELSE LET r == serialize(value.kids[i], hr, pos \o <<i>>,
                                  path \o <<value.keys[i]>>)
                   done == calls \o <<ev("serialize_field", value.keys[i])>>
                                 \o r.calls
               IN  IF r.tag = "Err" THEN err(done, r.path)
                   ELSE fields(i + 1, done, Append(outs, r.out))
    IN  CASE value.kind = "HumanReadable" ->
               ask(HumanReadable_serialize(value))
          [] value.kind = "Utf8LossyDeserialization" ->
               ask(Utf8LossyDeserialization_serialize(value))
          [] value.kind = "newtype" ->
               ask([call |-> "serialize_newtype_struct", name |-> value.name,
                    value |-> value.kids[1]])
          [] value.kind = "struct" ->
               fields(1, <<ev("serialize_struct", value.name)>>, <<>>)
          [] value.kind = "u64" ->
               IF i64_try_from(value.n).tag = "Err"
               THEN err(<<ev("serialize_u64", "")>>, path)
               ELSE leaf("serialize_u64", "Int64", value.n, <<>>)
          [] value.kind = "datetime" ->
               IF ~hr THEN leaf("serialize_i64", "DateTime", value.n, <<>>)
               ELSE IF string.tag = "Err"
               THEN err(<<ev("is_human_readable", "")>>, path)
               ELSE ok(<<ev("serialize_str", "")>>,
                       Node("String", "RFC 3339", string.val, <<>>, <<>>, <<>>))
          [] OTHER -> leaf("serialize_str", "String", {}, value.s)

\* impl Deserialize for HumanReadable<T>: what it asks of the deserializer;
\* its visitor's visit_newtype_struct is T::deserialize(d).map(HumanReadable).
HumanReadable_deserialize(ty) ==
    [call |-> "deserialize_newtype_struct", name |-> HUMAN_READABLE_NEWTYPE,
     inner |-> ty.kids[1], map |-> "HumanReadable"]

\* impl Deserialize for Utf8LossyDeserialization<T>, likewise.
Utf8LossyDeserialization_deserialize(ty) ==
    [call |-> "deserialize_newtype_struct", name |-> UTF8_LOSSY_NEWTYPE,
     inner |-> ty.kids[1], map |-> "Utf8LossyDeserialization"]

\* The deserializer at work: the type ty is deserialized from the Bson
\* value input in the mode [hr, lossy, raw] (raw: the input was read from
\* bytes).  It returns the requests made of it, each with the mode it was
\* made in, the value built and, on failure, the path of the field that
\* failed.  A newtype struct is visited with visit_newtype_struct over the
\* same input; the name HUMAN_READABLE_NEWTYPE turns the human-readable
\* mode on for the wrapped type and, over raw bytes, UTF8_LOSSY_NEWTYPE the
\* lossy mode.  A struct takes the entries of a document in their order,
\* skips the keys it does not know and stops at the first failure.
\* A date-time is read from a DateTime in the default mode and, in
\* human-readable mode, from a String that is the formatted string of an
\* instant (named "RFC 3339", n the instant); any other input is an error.
RECURSIVE deserialize(_, _, _, _, _)
deserialize(ty, input, mode, pos, path) ==
    LET ev(c, nm) == [call |-> c, name |-> nm, hr |-> mode.hr,
                      lossy |-> mode.lossy, pos |-> pos]
        null == Node("Null", "", {}, <<>>, <<>>, <<>>)
        ok(calls, val) ==
          [tag |-> "Ok", calls |-> calls, path |-> <<>>, val |-> val]
        err(calls, p) ==
          [tag |-> "Err", calls |-> calls, path |-> p, val |-> null]
        ask(req) ==
          LET inner == deserialize(
                         req.inner, input,
                         [mode EXCEPT
                            !.hr = @ \/ req.name = HUMAN_READABLE_NEWTYPE,
                            !.lossy = @ \/ (mode.raw
                                            /\ req.name = UTF8_LOSSY_NEWTYPE)],
                         pos \o <<1>>, path)
          IN  [inner EXCEPT
                 !.calls = <<ev(req.call, req.name)>> \o @,
                 !.val = IF inner.tag = "Ok"
                         THEN Node(req.map, ty.name, {}, <<>>, <<>>, <<@>>)
                         ELSE @]
        RECURSIVE entries(_, _, _)
        entries(i, calls, vals) ==
          IF i > Len(input.keys)
          THEN (IF \E f \in 1 .. Len(ty.keys) : vals[f] = null
                THEN err(calls, path)
                ELSE ok(calls, Node("struct", ty.name, {}, <<>>, ty.keys, vals)))
          ELSE LET known == {f \in 1 .. Len(ty.keys) : ty.keys[f] = input.keys[i]}
               IN  IF known = {} THEN entries(i + 1, calls, vals)
                   ELSE LET f == SetMin(known)
                            r == deserialize(ty.kids[f], input.kids[i], mode,
                                             pos \o <<f>>,
                                             path \o <<input.keys[i]>>)
                        IN  IF r.tag = "Err" THEN err(calls \o r.calls, r.path)
                            ELSE entries(i + 1, calls \o r.calls,
                                         [vals EXCEPT ![f] = r.val])
    IN  CASE ty.kind = "HumanReadable" -> ask(HumanReadable_deserialize(ty))
          [] ty.kind = "Utf8LossyDeserialization" ->
               ask(Utf8LossyDeserialization_deserialize(ty))
          [] ty.kind = "newtype" ->
               ask([call |-> "deserialize_newtype_struct", name |-> ty.name,
                    inner |-> ty.kids[1], map |-> "newtype"])
          [] ty.kind = "struct" ->
               IF input.kind # "Document"
               THEN err(<<ev("deserialize_struct", ty.name)>>, path)
               ELSE entries(1, <<ev("deserialize_struct", ty.name)>>,
                            [f \in 1 .. Len(ty.keys) |-> null])
          [] ty.kind = "u64" ->
               IF input.kind \in {"Int32", "Int64"} /\ 63 \notin input.n
               THEN ok(<<ev("deserialize_u64", "")>>,
                       Node("u64", "", input.n, <<>>, <<>>, <<>>))
               ELSE err(<<ev("deserialize_u64", "")>>, path)
          [] ty.kind = "datetime" ->
               IF ~mode.hr /\ input.kind = "DateTime"
               THEN ok(<<ev("is_human_readable", "")>>,
                       Node("datetime", "", input.n, <<>>, <<>>, <<>>))
               ELSE IF mode.hr /\ input.kind = "String"
                         /\ input.name = "RFC 3339"
               THEN ok(<<ev("is_human_readable", "")>>,
                       Node("datetime", "", input.n, <<>>, <<>>, <<>>))
               ELSE err(<<ev("is_human_readable", "")>>, path)
          [] OTHER ->
               IF input.kind = "String"
               THEN ok(<<ev("deserialize_string", "")>>,
                       Node("str", "", {}, input.s, <<>>, <<>>))
               ELSE err(<<ev("deserialize_string", "")>>, path)

\* The values serialized: 42_u64, u64::MAX, "hello" and a date-time, and
\* around them, one level at a time, the two wrappers, a user's newtype,
\* the struct Bar { value } and the struct Foo { one: Bar, two: Bar }.
RECURSIVE SerdeValues(_)
SerdeValues(depth) ==
    IF depth = 0
    THEN {Node("u64", "", {1, 3, 5}, <<>>, <<>>, <<>>),
          Node("u64", "", U64_MAX, <<>>, <<>>, <<>>),
          Node("str", "", {}, <<104, 101, 108, 108, 111>>, <<>>, <<>>),
          Node("datetime", "", {2, 3}, <<>>, <<>>, <<>>)}
    ELSE LET S == SerdeValues(depth - 1)
             Bars == {t \in S : t.name = "Bar"}
         IN  S \cup {HumanReadable(t) : t \in S}
               \cup {Utf8LossyDeserialization(t) : t \in S}
               \cup {Node("newtype", "Wrapper", {}, <<>>, <<>>, <<t>>) : t \in S}
               \cup {Node("struct", "Bar", {}, <<>>, <<"value">>, <<t>>) : t \in S}
               \cup {Node("struct", "Foo", {}, <<>>, <<"one", "two">>, <<a, b>>) :
                       a \in Bars, b \in Bars}

\* A value about to be serialized; ty is the type a later deserialization
\* asks for.
InitSerde ==
    /\ array = new
    /\ pushed = <<>>
    /\ iter = NoIter
    /\ \E v \in SerdeValues(MaxDepth) :
         call = [op |-> "none", via |-> "none", arg |-> v, ty |-> v,
                 out |-> Pending, back |-> Pending]

\* serialize_to_bson(&value) or serialize_to_vec(&value)
Serialize ==
    /\ call.op = "none"
    /\ \E op \in {"serialize_to_bson", "serialize_to_vec"} :
         call' = [call EXCEPT !.op = op,
                              !.out = serialize(call.arg, FALSE, <<>>, <<>>)]
    /\ UNCHANGED <<array, pushed, iter>>

\* A faulty variant of the deserialize entry points: the path of the
\* failing field is not attached to the error.
Deserialize_without_path ==
    /\ call.via = "none" /\ call.op # "none"
    /\ call.out.tag = "Ok"
    /\ LET RECURSIVE unsigned(_)
           unsigned(t) ==
             IF t.kind = "str" THEN [t EXCEPT !.kind = "u64", !.s = <<>>]
             ELSE [t EXCEPT !.kids = [k \in 1 .. Len(t.kids) |-> unsigned(t.kids[k])]]
       IN  \E raw \in {r \in BOOLEAN : r => call.out.out.kind = "Document"},
              ty \in {call.arg, unsigned(call.arg)} :
             call' = [call EXCEPT
                        !.via = call.op,
                        !.op = IF raw THEN "deserialize_from_slice"
                               ELSE IF call.out.out.kind = "Document"
                               THEN "deserialize_from_document"
                               ELSE "deserialize_from_bson",
                        !.ty = ty,
                        !.back = [deserialize(
                                    ty, call.out.out,
                                    [hr |-> FALSE, lossy |-> FALSE, raw |-> raw],
                                    <<>>, <<>>) EXCEPT !.path = <<>>]]
    /\ UNCHANGED <<array, pushed, iter>>

\* deserialize_from_bson / deserialize_from_document(out) or, of a document
\* as bytes, deserialize_from_slice(&bytes), into the type of the value
\* serialized or into that type with a u64 wherever it has a string.
Deserialize ==
    /\ call.via = "none" /\ call.op # "none"
    /\ call.out.tag = "Ok"
    /\ LET RECURSIVE unsigned(_)
           unsigned(t) ==
             IF t.kind = "str" THEN [t EXCEPT !.kind = "u64", !.s = <<>>]
             ELSE [t EXCEPT !.kids = [k \in 1 .. Len(t.kids) |-> unsigned(t.kids[k])]]
       IN  \E raw \in {r \in BOOLEAN : r => call.out.out.kind = "Document"},
              ty \in {call.arg, unsigned(call.arg)} :
             call' = [call EXCEPT
                        !.via = call.op,
                        !.op = IF raw THEN "deserialize_from_slice"
                               ELSE IF call.out.out.kind = "Document"
                               THEN "deserialize_from_document"
                               ELSE "deserialize_from_bson",
                        !.ty = ty,
                        !.back = deserialize(
                                   ty, call.out.out,
                                   [hr |-> FALSE, lossy |-> FALSE, raw |-> raw],
                                   <<>>, <<>>)]
    /\ UNCHANGED <<array, pushed, iter>>

NextSerde == Serialize \/ Deserialize

SpecSerde == InitSerde /\ [][NextSerde]_vars

(***************************************************************************)
(* Decoding a document from bytes (specification, sections 3, 4.4 and 6)   *)
(***************************************************************************)

\* Largest number of elements of the documents decoded.
MaxElems == 2

\* A faulty variant of from_bytes: the declared length is not compared with
\* the length of the buffer.
from_bytes_length_unchecked(data) ==
    IF Len(data) < 5 THEN [tag |-> "Err"]
    ELSE IF data[Len(data)] # 0 THEN [tag |-> "Err"]
    ELSE [tag |-> "Ok"]

\* RawDocument::from_bytes: the buffer holds at least the length prefix and
\* the terminator, the prefix declares the buffer's length and the last
\* byte is 0x00.  The elements are not looked at.
from_bytes(data) ==
    IF Len(data) < 5 THEN [tag |-> "Err"]
    ELSE IF from_le_bytes(SubSeq(data, 1, 4)) # Len(data) THEN [tag |-> "Err"]
    ELSE IF data[Len(data)] # 0 THEN [tag |-> "Err"]
    ELSE [tag |-> "Ok"]

\* fuzz_regression_00
FuzzRegression00 ==
    <<227, 0, 35, 4, 2, 0, 255, 255, 255, 127, 255, 255, 255, 47>>

\* The buffers decoded: documents of up to MaxElems elements (12_i32, "a",
\* embedded documents and arrays, one of them with a byte after its
\* terminator), each as built and damaged: the prefix one too large or too
\* small, a byte added after the terminator with the prefix as it was and
\* with the prefix adjusted, a stray byte put before the terminator, the
\* last byte cut off with the prefix as it was and with the prefix
\* adjusted; and the buffer of fuzz_regression_00.
DecodeInputs ==
    LET inner == {RawDocumentBuf_new, append(RawDocumentBuf_new, <<98>>, Int32(12)),
                  <<6, 0, 0, 0, 0, 0>>}
        vals == {Int32(12), String(<<97>>)}
                  \cup {Document(ty, b) : ty \in {"Document", "Array"}, b \in inner}
        RECURSIVE docs(_)
        docs(n) == IF n = 0 THEN {RawDocumentBuf_new}
                   ELSE docs(n - 1) \cup
                          {append(d, to_string(n), v) :
                             d \in docs(n - 1), v \in vals}
        patched(b) == to_le_bytes(Len(b)) \o SubSeq(b, 5, Len(b))
        damaged(d) ==
          {d,
           to_le_bytes(Len(d) + 1) \o SubSeq(d, 5, Len(d)),
           to_le_bytes(Len(d) - 1) \o SubSeq(d, 5, Len(d)),
           d \o <<0>>,
           patched(d \o <<0>>),
           patched(SubSeq(d, 1, Len(d) - 1) \o <<7, 0>>),
           SubSeq(d, 1, Len(d) - 1),
           patched(SubSeq(d, 1, Len(d) - 1))}
    IN  UNION {damaged(d) : d \in docs(MaxElems)} \cup {FuzzRegression00}

\* A buffer about to be decoded: the Deserializer in its Start state.
InitDecode ==
    /\ array = new
    /\ pushed = <<>>
    /\ iter = NoIter
    /\ \E data \in DecodeInputs :
         call = [op |-> "none", arg |-> data, state |-> "Start", stack |-> <<>>]

\* deserialize_from_slice::<Document>(buf): the view over the buffer is
\* made, or the buffer is rejected.
DecodeBegin ==
    /\ call.state = "Start"
    /\ \/ /\ from_bytes(call.arg).tag = "Ok"
          /\ call' = [call EXCEPT
                        !.op = "deserialize_from_slice",
                        !.state = "Reading",
                        !.stack = <<[doc |-> call.arg, it |-> RawIter_new]>>]
       \/ /\ from_bytes(call.arg).tag = "Err"
          /\ call' = [call EXCEPT !.op = "deserialize_from_slice",
                                  !.state = "Error"]
    /\ UNCHANGED <<array, pushed, iter>>

\* A faulty variant of the visitor's step: an error inside an embedded
\* document or array closes it and the reading goes on after it.
DecodeStep_skipping_errors ==
    /\ call.state = "Reading"
    /\ LET top == call.stack[Len(call.stack)]
           rest == SubSeq(call.stack, 1, Len(call.stack) - 1)
           r == RawIter_next(top.doc, top.it)
           moved == Append(rest, [top EXCEPT !.it = r.it])
       IN  \/ /\ r.item.kind = "Err" /\ rest = <<>>
              /\ call' = [call EXCEPT !.state = "Error", !.stack = moved]
           \/ /\ r.item.kind = "Err" /\ rest # <<>>
              /\ call' = [call EXCEPT !.stack = rest]
           \/ /\ r.item.kind = "None" /\ rest = <<>>
              /\ call' = [call EXCEPT !.state = "Complete", !.stack = rest]
           \/ /\ r.item.kind = "None" /\ rest # <<>>
              /\ call' = [call EXCEPT !.stack = rest]
           \/ /\ r.item.kind = "Ok"
              /\ r.item.value.type \in {"Document", "Array"}
              /\ call' = [call EXCEPT
                            !.stack = Append(moved, [doc |-> r.item.value.s,
                                                     it |-> RawIter_new])]
           \/ /\ r.item.kind = "Ok"
              /\ r.item.value.type \notin {"Document", "Array"}
              /\ call' = [call EXCEPT !.stack = moved]
    /\ UNCHANGED <<array, pushed, iter>>

\* The visitor takes the next element of the innermost open document: a
\* scalar is read, an embedded document or array is entered, the end of
\* the document closes it (the outermost: Complete), an error ends it all.
DecodeStep ==
    /\ call.state = "Reading"
    /\ LET top == call.stack[Len(call.stack)]
           rest == SubSeq(call.stack, 1, Len(call.stack) - 1)
           r == RawIter_next(top.doc, top.it)
           moved == Append(rest, [top EXCEPT !.it = r.it])
       IN  \/ /\ r.item.kind = "Err"
              /\ call' = [call EXCEPT !.state = "Error", !.stack = moved]
           \/ /\ r.item.kind = "None" /\ rest = <<>>
              /\ call' = [call EXCEPT !.state = "Complete", !.stack = rest]
           \/ /\ r.item.kind = "None" /\ rest # <<>>
              /\ call' = [call EXCEPT !.stack = rest]
           \/ /\ r.item.kind = "Ok"
              /\ r.item.value.type \in {"Document", "Array"}
              /\ call' = [call EXCEPT
                            !.stack = Append(moved, [doc |-> r.item.value.s,
                                                     it |-> RawIter_new])]
           \/ /\ r.item.kind = "Ok"
              /\ r.item.value.type \notin {"Document", "Array"}
              /\ call' = [call EXCEPT !.stack = moved]
    /\ UNCHANGED <<array, pushed, iter>>

NextDecode == DecodeBegin \/ DecodeStep

SpecDecode == InitDecode /\ [][NextDecode]_vars

(***************************************************************************)
(* An array over bytes it did not build                                    *)
(***************************************************************************)

\* RawArrayBuf::from_raw_document_buf: the elements are counted once, an
\* element in error counting as one.
from_raw_document_buf(doc) ==
    [inner |-> doc, len |-> Len(Elements(doc, RawIter_new))]

\* The bytes of an array of up to MaxElems values (pushed), then possibly
\* an element that is not valid (an unknown type tag, a string longer than
\* the buffer, a string without its final 0x00) and possibly a valid
\* element after that one, the length prefix declaring the whole; or the
\* array's bytes without their terminator.
InitView ==
    /\ array = new
    /\ iter = NoIter
    /\ LET RECURSIVE arrays(_)
           arrays(n) ==
             IF n = 0 THEN {[a |-> new, vals |-> <<>>]}
             ELSE arrays(n - 1) \cup
                    {[a |-> push(x.a, v), vals |-> Append(x.vals, v)] :
                       x \in arrays(n - 1), v \in Values}
           bad == {<<99, 120, 0>>,
                   <<2, 120, 0, 100, 0, 0, 0, 97, 0>>,
                   <<2, 120, 0, 2, 0, 0, 0, 97, 98>>}
           tails == {<<>>, <<16, 121, 0, 12, 0, 0, 0>>}
           with(data, extra) ==
             LET b == SubSeq(data, 1, Len(data) - 1) \o extra \o <<0>>
             IN  to_le_bytes(Len(b)) \o SubSeq(b, 5, Len(b))
       IN  \E x \in arrays(MaxElems) :
             /\ pushed = x.vals
             /\ \/ call = [op |-> "none", arg |-> x.a.inner, bad |-> FALSE]
                \/ call = [op |-> "none", bad |-> FALSE,
                           arg |-> SubSeq(x.a.inner, 1, Len(x.a.inner) - 1)]
                \/ \E e \in bad, t \in tails :
                     call = [op |-> "none", arg |-> with(x.a.inner, e \o t),
                             bad |-> TRUE]

\* RawArrayBuf::from_raw_document_buf(RawDocumentBuf::from_bytes(bytes)?)
FromRawDocumentBuf ==
    /\ call.op = "none"
    /\ \/ /\ from_bytes(call.arg).tag = "Ok"
          /\ array' = from_raw_document_buf(call.arg)
          /\ call' = [call EXCEPT !.op = "from_raw_document_buf"]
       \/ /\ from_bytes(call.arg).tag = "Err"
          /\ array' = array
          /\ call' = [call EXCEPT !.op = "from_bytes: error"]
    /\ UNCHANGED <<pushed, iter>>

NextView == FromRawDocumentBuf \/ IntoIter \/ IterNext \/ DropIter

SpecView == InitView /\ [][NextView]_vars

(***************************************************************************)
(* TryFrom<Array> for RawArrayBuf                                          *)
(***************************************************************************)

\* A value of the typed model: an Int32 (i), a String (s), a Document (the
\* keys, as bytes, and the values vals) or an Array (vals).
Bson(type, i, s, keys, vals) ==
    [type |-> type, i |-> i, s |-> s, keys |-> keys, vals |-> vals]

\* TryFrom<Bson> for RawBson: a document is appended to entry by entry and
\* an array pushed to, and a key holding a null byte is the one error.
RECURSIVE try_into(_)
try_into(val) ==
    LET error == [tag |-> "Err", val |-> Int32(0)]
        RECURSIVE entries(_, _)
        entries(k, doc) ==
          IF k > Len(val.vals) THEN [tag |-> "Ok", val |-> Document(val.type, doc)]
          ELSE IF val.type = "Document" /\ \E j \in 1 .. Len(val.keys[k]) :
                                             val.keys[k][j] = 0
          THEN error
          ELSE LET r == try_into(val.vals[k])
               IN  IF r.tag = "Err" THEN error
                   ELSE entries(k + 1,
                                append(doc,
                                       IF val.type = "Array" THEN to_string(k - 1)
                                       ELSE val.keys[k],
                                       r.val))
    IN  CASE val.type \in {"Document", "Array"} -> entries(1, RawDocumentBuf_new)
          [] val.type = "String" -> [tag |-> "Ok", val |-> String(val.s)]
          [] OTHER -> [tag |-> "Ok", val |-> Int32(val.i)]

\* TryFrom<RawBsonRef> for Bson: a raw value materialized.
RECURSIVE to_bson(_)
to_bson(raw) ==
    IF raw.type \in {"Document", "Array"}
    THEN LET items == Elements(raw.s, RawIter_new)
         IN  Bson(raw.type, 0, <<>>,
                  IF raw.type = "Array" THEN <<>>
                  ELSE [k \in 1 .. Len(items) |-> items[k].key],
                  [k \in 1 .. Len(items) |-> to_bson(items[k].value)])
    ELSE Bson(raw.type, raw.i, raw.s, <<>>, <<>>)

\* try_from(value) at `let mut tmp = RawArrayBuf::new()`: value is an Array
\* of up to MaxElems of 12_i32, "a", documents and arrays, some of them
\* with a null byte in a key, directly or one level down.
InitTryFrom ==
    /\ array = new
    /\ pushed = <<>>
    /\ iter = NoIter
    /\ LET int == Bson("Int32", 12, <<>>, <<>>, <<>>)
           docs == {Bson("Document", 0, <<>>, <<key>>, <<int>>) :
                      key \in {<<98>>, <<98, 0, 99>>}}
           vals == {int, Bson("String", 0, <<97>>, <<>>, <<>>),
                    Bson("Document", 0, <<>>, <<>>, <<>>),
                    Bson("Array", 0, <<>>, <<>>, <<int, int>>)}
                     \cup docs
                     \cup {Bson("Document", 0, <<>>, <<<<107>>, <<108>>>>, <<int, d>>) :
                             d \in docs}
                     \cup {Bson("Array", 0, <<>>, <<>>, <<d>>) : d \in docs}
           RECURSIVE arrays(_)
           arrays(n) ==
             IF n = 0 THEN {<<>>}
             ELSE arrays(n - 1) \cup
                    {Append(a, v) : a \in arrays(n - 1), v \in vals}
       IN  \E a \in arrays(MaxElems) :
             call = [op |-> "try_from", arg |-> Bson("Array", 0, <<>>, <<>>, a),
                     result |-> [tag |-> "Pending", val |-> new]]

\* A faulty variant of the loop body: when an element fails to convert,
\* what was built so far is returned.
TryFromNext_returning_partial ==
    /\ call.op = "try_from" /\ call.result.tag = "Pending"
    /\ Len(pushed) < Len(call.arg.vals)
    /\ LET raw == try_into(call.arg.vals[Len(pushed) + 1])
       IN  \/ /\ raw.tag = "Err"
              /\ call' = [call EXCEPT !.result = [tag |-> "Ok", val |-> array]]
              /\ UNCHANGED <<array, pushed>>
           \/ /\ raw.tag = "Ok"
              /\ array' = push(array, raw.val)
              /\ pushed' = Append(pushed, raw.val)
              /\ call' = call
    /\ UNCHANGED iter

\* for val in value { let raw: RawBson = val.try_into()?; tmp.push(raw); }
TryFromNext ==
    /\ call.op = "try_from" /\ call.result.tag = "Pending"
    /\ Len(pushed) < Len(call.arg.vals)
    /\ LET raw == try_into(call.arg.vals[Len(pushed) + 1])
       IN  \/ /\ raw.tag = "Err"
              /\ call' = [call EXCEPT !.result = [tag |-> "Err", val |-> new]]
              /\ UNCHANGED <<array, pushed>>
           \/ /\ raw.tag = "Ok"
              /\ array' = push(array, raw.val)
              /\ pushed' = Append(pushed, raw.val)
              /\ call' = call
    /\ UNCHANGED iter

\* Ok(tmp)
TryFromReturn ==
    /\ call.op = "try_from" /\ call.result.tag = "Pending"
    /\ Len(pushed) = Len(call.arg.vals)
    /\ call' = [call EXCEPT !.result = [tag |-> "Ok", val |-> array]]
    /\ UNCHANGED <<array, pushed, iter>>

NextTryFrom == TryFromNext \/ TryFromReturn

SpecTryFrom == InitTryFrom /\ [][NextTryFrom]_vars

(***************************************************************************)
(* FromIterator for RawArrayBuf, Default, and the builder however built    *)
(***************************************************************************)

\* Default for RawArrayBuf: Self::new()
default == new

\* from_iter(iter) at `let mut array_buf = RawArrayBuf::new()`: the iterator
\* holds up to MaxElems raw values, among them documents and arrays.
InitFromIter ==
    /\ array = new
    /\ pushed = <<>>
    /\ iter = NoIter
    /\ LET items == Values
                      \cup {Document(t, d) :
                              t \in {"Document", "Array"},
                              d \in {RawDocumentBuf_new,
                                     append(RawDocumentBuf_new, <<48>>, Int32(12)),
                                     append(RawDocumentBuf_new, <<48>>, String(<<97>>))}}
           RECURSIVE iters(_)
           iters(n) ==
             IF n = 0 THEN {<<>>}
             ELSE iters(n - 1) \cup
                    {Append(a, v) : a \in iters(n - 1), v \in items}
       IN  \E a \in iters(MaxElems) :
             call = [op |-> "from_iter", arg |-> a,
                     result |-> [tag |-> "Pending", val |-> new]]

\* A faulty variant of the loop body: the items are taken from the back of
\* the iterator.
FromIterNext_from_the_back ==
    /\ call.op = "from_iter" /\ call.result.tag = "Pending"
    /\ Len(pushed) < Len(call.arg)
    /\ array' = push(array, call.arg[Len(call.arg) - Len(pushed)])
    /\ pushed' = Append(pushed, call.arg[Len(call.arg) - Len(pushed)])
    /\ UNCHANGED <<iter, call>>

\* for item in iter { array_buf.push(item); }
FromIterNext ==
    /\ call.op = "from_iter" /\ call.result.tag = "Pending"
    /\ Len(pushed) < Len(call.arg)
    /\ array' = push(array, call.arg[Len(pushed) + 1])
    /\ pushed' = Append(pushed, call.arg[Len(pushed) + 1])
    /\ UNCHANGED <<iter, call>>

\* array_buf
FromIterReturn ==
    /\ call.op = "from_iter" /\ call.result.tag = "Pending"
    /\ Len(pushed) = Len(call.arg)
    /\ call' = [call EXCEPT !.result = [tag |-> "Ok", val |-> array]]
    /\ UNCHANGED <<array, pushed, iter>>

NextFromIter == FromIterNext \/ FromIterReturn

SpecFromIter == InitFromIter /\ [][NextFromIter]_vars

\* A builder made by any of new and push, FromIterator and TryFrom<Array>.
InitBuilder == InitArray \/ InitFromIter \/ InitTryFrom

NextBuilder ==
    \/ call.op = "none" /\ Push
    \/ FromIterNext
    \/ FromIterReturn
    \/ TryFromNext
    \/ TryFromReturn

SpecBuilder == InitBuilder /\ [][NextBuilder]_vars

(***************************************************************************)
(* Claims about the array builder (checked under SpecArray)                *)
(***************************************************************************)

\* The elements encoded in the array's buffer, read from its first byte on.
ArrayElements == Elements(array.inner, RawIter_new)

\* The number a key denotes when it is a canonical decimal numeral (ASCII
\* digits, no leading zero), and -1 when it is not one.
RECURSIVE DigitsValue(_)
DigitsValue(key) ==
    IF key = <<>> THEN 0
    ELSE 10 * DigitsValue(SubSeq(key, 1, Len(key) - 1)) + (key[Len(key)] - 48)

DecimalValue(key) ==
    IF /\ Len(key) >= 1
       /\ \A k \in 1 .. Len(key) : key[k] \in 48 .. 57
       /\ (Len(key) > 1 => key[1] # 48)
    THEN DigitsValue(key)
    ELSE -1

\* C1: after new() and after every push the buffer is a valid document on
\* its own: the little-endian length prefix equals the buffer's byte length,
\* the last byte is the 0x00 terminator, and reading the buffer element by
\* element reaches that terminator without an error.
C1_BufferAlwaysValid ==
    LET es == ArrayElements
    IN  /\ Len(array.inner) >= 5
        /\ from_le_bytes(SubSeq(array.inner, 1, 4)) = Len(array.inner)
        /\ array.inner[Len(array.inner)] = 0
        /\ \A k \in 1 .. Len(es) : es[k].kind = "Ok"

\* C1 witness: an array of eleven elements, observed between two operations.
C1_Witness == array.len = 11 /\ Len(array.inner) > 5 /\ iter.active

\* C2: the i-th element (0-based) of an array built by pushes has the key
\* that is the decimal numeral of i: one key per push, no gap, no duplicate.
C2_KeysAreIndices ==
    LET es == ArrayElements
    IN  /\ Len(es) = Len(pushed)
        /\ \A k \in 1 .. Len(es) :
             /\ es[k].kind = "Ok"
             /\ DecimalValue(es[k].key) = k - 1

\* C2 witness: an array whose last key has two digits ("10").
C2_Witness ==
    /\ Len(pushed) = 11
    /\ ArrayElements[11].key = <<49, 48>>

\* C3: iterating an array built by pushing v0..v(n-1) yields these values in
\* push order as successful items and then None; the iterator reads the array
\* as it stands (the array is not changed under it), from the start every
\* time one is made.
C3_IterationYieldsPushed ==
    iter.active =>
      /\ iter.doc = array.inner
      /\ Len(iter.yielded) <= Len(pushed)
      /\ \A k \in 1 .. Len(iter.yielded) :
           iter.yielded[k] = [kind |-> "Ok", value |-> pushed[k]]
      /\ (iter.ended => Len(iter.yielded) = Len(pushed))

\* C3 witness: an iterator that returned None after yielding both kinds of
\* value, a string and an i32.
C3_Witness ==
    /\ iter.active /\ iter.ended
    /\ Len(iter.yielded) >= 2
    /\ iter.yielded[1].value = String(<<97>>)
    /\ iter.yielded[2].value = Int32(12)

(***************************************************************************)
(* Claims about the integer helpers (checked under SpecInt)                *)
(***************************************************************************)

\* The signed pattern p (bit `sign` is its sign bit) is numerically equal to
\* the unsigned value u: it is not negative, and its magnitude is u.
SignedEquals(p, sign, u) == sign \notin p /\ p = u

\* C6: serialize_u32_as_i32 and serialize_u64_as_i32 succeed exactly when the
\* input is <= 2^31 - 1 (no bit at position 31 or above), and then the
\* serializer receives an i32 numerically equal to the input; for a larger
\* input they return an error and the serializer is not called.
C6_AsI32ExactOrError ==
    call.op \in {"serialize_u32_as_i32", "serialize_u64_as_i32"} =>
      IF \A p \in call.arg.v : p < 31
      THEN /\ call.out.tag = "Ok"
           /\ call.out.method = "serialize_i32"
           /\ SignedEquals(call.out.val, 31, call.arg.v)
      ELSE call.out.tag = "Err" /\ call.out.method = "none"

\* C6 witness: u32::MAX, rejected by serialize_u32_as_i32.
C6_Witness ==
    /\ call.op = "serialize_u32_as_i32"
    /\ call.arg.v = U32_MAX
    /\ call.out.tag = "Err"

\* C7: serializing an unsigned integer as i64 succeeds exactly when the value
\* is <= 2^63 - 1 and then emits an i64 numerically equal to the input: for
\* every u32 (u32::MAX included), for u64 up to i64::MAX; i64::MAX + 1 and
\* above are errors.
C7_AsI64ExactOrError ==
    /\ call.op \in {"serialize_u32_as_i64", "serialize_u64_as_i64"} =>
         IF \A p \in call.arg.v : p < 63
         THEN /\ call.out.tag = "Ok"
              /\ call.out.method = "serialize_i64"
              /\ SignedEquals(call.out.val, 63, call.arg.v)
         ELSE call.out.tag = "Err" /\ call.out.method = "none"
    /\ call.op = "serialize_u32_as_i64" => call.out.tag = "Ok"
    /\ (call.op = "serialize_u64_as_i64" /\ call.arg.v = I64_MAX)
         => call.out = Ok("serialize_i64", I64_MAX)
    /\ (call.op = "serialize_u64_as_i64" /\ call.arg.v = {63})
         => call.out.tag = "Err"

\* C7 witness: i64::MAX + 1 = 2^63, rejected by serialize_u64_as_i64.
C7_Witness ==
    /\ call.op = "serialize_u64_as_i64"
    /\ call.arg.v = {63}
    /\ call.out.tag = "Err"

(***************************************************************************)
(* Claims about u64_as_f64 (checked under SpecF64)                         *)
(***************************************************************************)

\* A u64 is exactly representable as a double when its 1 bits span at most
\* 53 positions.
ExactInF64(v) == v = {} \/ SetMax(v) - SetMin(v) <= 52

\* C4: u64_as_f64::serialize succeeds exactly for the u64 values a double
\* represents exactly, emitting that double, and fails for every other
\* value without emitting anything; 2^53 succeeds and decodes back to 2^53,
\* while 2^53 + 1, u64::MAX and u64::MAX - 255 fail.
C4_SerializeExactOnly ==
    call.op = "u64_as_f64::serialize" =>
      /\ IF ExactInF64(call.arg.v)
         THEN /\ call.out.tag = "Ok"
              /\ call.out.method = "serialize_f64"
              /\ call.out.val = Fin(FALSE, call.arg.v)
         ELSE call.out.tag = "Err" /\ call.out.method = "none"
      /\ call.arg.v = {53} =>
           /\ call.out.tag = "Ok"
           /\ u64_as_f64_deserialize(GotOk(call.out.val)) = Ok("return", {53})
      /\ call.arg.v \in {{0, 53}, 0 .. 63, 8 .. 63} => call.out.tag = "Err"

\* C4 witness: 2^53 + 1 is rejected.
C4_Witness ==
    /\ call.op = "u64_as_f64::serialize"
    /\ call.arg.v = {0, 53}
    /\ call.out.tag = "Err"

\* The double f is in the image of u64_as_f64::serialize: some u64 is
\* accepted and emitted as (a double equal to) f.  Only the integer value of
\* f can be that u64, since serialize requires val == val as f64 as u64.
InSerializeImage(f) ==
    LET r == u64_as_f64_serialize(f64_as_u64(f))
    IN  r.tag = "Ok" /\ F64Eq(r.val, f)

\* C5: u64_as_f64::deserialize succeeds on a double exactly when the double
\* is one that u64_as_f64::serialize produces, and fails on every other.
C5_DeserializeAcceptsImageOnly ==
    (call.op = "u64_as_f64::deserialize" /\ call.arg.got.tag = "Ok") =>
      (call.back.tag = "Ok" <=> InSerializeImage(call.arg.got.val))

(***************************************************************************)
(* Claims about the timestamp helpers (checked under SpecTs)               *)
(***************************************************************************)

\* C8: timestamp_as_u32::serialize returns an error, emitting nothing, for
\* every Timestamp with a non-zero increment; with increment 0 it emits the
\* u32 time, and timestamp_as_u32::deserialize of that u32 gives back a
\* Timestamp equal to the original (same time, increment 0).
C8_TimestampAsU32Guard ==
    /\ (call.arg.kind = "timestamp"
          /\ "timestamp_as_u32::serialize" \in {call.op, call.via}) =>
         IF call.arg.ts.increment # {}
         THEN call.out.tag = "Err" /\ call.out.method = "none"
         ELSE /\ call.out.tag = "Ok"
              /\ call.out.method = "serialize_u32"
              /\ call.out.val = call.arg.ts.time
    /\ call.via = "timestamp_as_u32::serialize" =>
         /\ call.back.tag = "Ok"
         /\ call.back.val = call.arg.ts
         /\ call.back.val.increment = {}

\* C8 witness: the timestamp (u32::MAX, 0) emitted and decoded back.
C8_Witness ==
    /\ call.op = "timestamp_as_u32::deserialize"
    /\ call.via = "timestamp_as_u32::serialize"
    /\ call.arg.ts = Timestamp(U32_MAX, {})
    /\ call.back.tag = "Ok"

\* C9: every helper that turns a Timestamp into a u32 returns an error
\* rather than the bare time when the increment it would discard is not 0:
\* timestamp_as_u32::serialize and u32_as_timestamp::deserialize.
C9_LossyTimestampRejected ==
    /\ (call.op = "timestamp_as_u32::serialize" /\ call.arg.ts.increment # {})
         => call.out.tag = "Err"
    /\ (call.op = "u32_as_timestamp::deserialize" /\ call.via = "none"
          /\ call.arg.kind = "timestamp" /\ call.arg.ts.increment # {})
         => call.back.tag = "Err"

(***************************************************************************)
(* Claims about the legacy UUID helpers (checked under SpecUuid)           *)
(***************************************************************************)

\* The documented byte sequences of 00112233-4455-6677-8899-aabbccddeeff.
JavaLegacyBytes ==
    <<119, 102, 85, 68, 51, 34, 17, 0, 255, 238, 221, 204, 187, 170, 153, 136>>

PythonLegacyBytes ==
    <<0, 17, 34, 51, 68, 85, 102, 119, 136, 153, 170, 187, 204, 221, 238, 255>>

CSharpLegacyBytes ==
    <<51, 34, 17, 0, 85, 68, 119, 102, 136, 153, 170, 187, 204, 221, 238, 255>>

ExpectedLegacyBytes ==
    [uuid_1_as_java_legacy_binary     |-> JavaLegacyBytes,
     uuid_1_as_python_legacy_binary   |-> PythonLegacyBytes,
     uuid_1_as_c_sharp_legacy_binary  |-> CSharpLegacyBytes]

\* C10: the Java-, Python- and C#-legacy helpers encode the UUID
\* 00112233-4455-6677-8899-aabbccddeeff as UuidOld binaries with the three
\* documented, pairwise distinct byte sequences; decoding with the matching
\* helper returns the UUID, decoding with another one does not.
C10_LegacyUuidByteOrders ==
    \A ser \in DOMAIN ExpectedLegacyBytes :
      (/\ call.arg.kind = "uuid" /\ call.arg.uuid = TestUuid
       /\ ser \o "::serialize" \in {call.op, call.via}) =>
        /\ call.out.tag = "Ok"
        /\ call.out.method = "serialize_binary"
        /\ call.out.val = Binary(UuidOld, ExpectedLegacyBytes[ser])
        /\ \A m \in DOMAIN ExpectedLegacyBytes :
             m # ser => ExpectedLegacyBytes[m] # call.out.val.bytes
        /\ call.via # "none" =>
             IF call.op = ser \o "::deserialize"
             THEN call.back.tag = "Ok" /\ call.back.val = TestUuid
             ELSE ~(call.back.tag = "Ok" /\ call.back.val = TestUuid)

\* C10 witness: the UUID encoded by the Java helper and decoded by the C#
\* helper, which returns another UUID.
C10_Witness ==
    /\ call.arg.kind = "uuid" /\ call.arg.uuid = TestUuid
    /\ call.via = "uuid_1_as_java_legacy_binary::serialize"
    /\ call.op = "uuid_1_as_c_sharp_legacy_binary::deserialize"
    /\ call.back.tag = "Ok"
    /\ call.back.val # TestUuid

\* C11: a legacy UUID helper deserializes only a Binary of the legacy UUID
\* subtype: for any other subtype (Generic, the non-legacy Uuid) it returns
\* an error and no UUID, and for the matching subtype it returns the payload
\* reordered back, so that encoding the result gives the payload again.
C11_LegacySubtypeMustMatch ==
    \A de \in DOMAIN LegacyModules :
      (call.op = de \o "::deserialize" /\ call.via = "none"
         /\ call.arg.kind = "binary") =>
        LET binary == call.arg.binary
            rep == LegacyModules[de]
        IN  /\ binary.subtype # UuidOld => call.back.tag = "Err"
            /\ call.back.tag = "Ok" =>
                 /\ binary.subtype = UuidOld
                 /\ from_uuid_with_representation(call.back.val, rep) = binary
            /\ (binary.subtype = UuidOld /\ Len(binary.bytes) = 16) =>
                 call.back.tag = "Ok"

C11_Witness ==
    /\ call.op = "uuid_1_as_c_sharp_legacy_binary::deserialize"
    /\ call.via = "none"
    /\ call.arg.kind = "binary"
    /\ call.arg.binary = Binary(Uuid, TestUuid)
    /\ call.back.tag = "Err"

(***************************************************************************)
(* Claims about the wrappers and the serde bridge (checked under SpecSerde)*)
(***************************************************************************)

\* The node at a child position of a value.
RECURSIVE NodeAt(_, _)
NodeAt(root, pos) ==
    IF pos = <<>> THEN root ELSE NodeAt(root.kids[Head(pos)], Tail(pos))

\* Whether the node at pos lies beneath a HumanReadable wrapper.
UnderHumanReadable(root, pos) ==
    \E k \in 0 .. (Len(pos) - 1) :
      NodeAt(root, SubSeq(pos, 1, k)).kind = "HumanReadable"

\* C12: while serializing and while deserializing, a value is processed in
\* human-readable mode exactly when it lies beneath a HumanReadable wrapper,
\* at whatever depth and through structs and other newtypes: nothing nested
\* switches the mode off again, and what lies beneath no wrapper is
\* processed in the default mode.
C12_HumanReadableMonotone ==
    /\ call.out.tag # "Pending" =>
         \A k \in 1 .. Len(call.out.calls) :
           call.out.calls[k].hr
             = UnderHumanReadable(call.arg, call.out.calls[k].pos)
    /\ call.back.tag # "Pending" =>
         \A k \in 1 .. Len(call.back.calls) :
           call.back.calls[k].hr
             = UnderHumanReadable(call.ty, call.back.calls[k].pos)

C12_Witness ==
    /\ call.op = "deserialize_from_slice"
    /\ call.arg.name = "Foo"
    /\ call.arg.kids[1].kids[1].kind = "HumanReadable"
    /\ call.arg.kids[2].kids[1].kind = "datetime"
    /\ call.back.tag = "Ok"
    /\ \E k \in 1 .. Len(call.back.calls) :
         call.back.calls[k].hr /\ call.back.calls[k].pos = <<1, 1, 1>>
    /\ \E k \in 1 .. Len(call.out.calls) :
         ~call.out.calls[k].hr /\ call.out.calls[k].pos = <<2, 1>>
              /\ call.out.calls[k].call = "serialize_i64"

\* C13: serializing Utf8LossyDeserialization(T) makes exactly the serializer
\* calls of serializing T, with the same result, and never emits the marker
\* newtype; deserializing it asks for the newtype struct named
\* "$__bson_private_utf8_lossy" and then gives T's result inside the
\* wrapper, or T's error as it is.
C13_Utf8LossyTransparent ==
    /\ call.out.tag # "Pending" =>
         /\ \A k \in 1 .. Len(call.out.calls) :
              call.out.calls[k].name # "$__bson_private_utf8_lossy"
         /\ call.arg.kind = "Utf8LossyDeserialization" =>
              call.out = serialize(call.arg.kids[1], FALSE, <<1>>, <<>>)
    /\ (call.back.tag # "Pending" /\ call.ty.kind = "Utf8LossyDeserialization") =>
         LET raw == call.op = "deserialize_from_slice"
             inner == deserialize(call.ty.kids[1], call.out.out,
                                  [hr |-> FALSE, lossy |-> raw, raw |-> raw],
                                  <<1>>, <<>>)
         IN  /\ call.back.calls[1].call = "deserialize_newtype_struct"
             /\ call.back.calls[1].name = "$__bson_private_utf8_lossy"
             /\ Tail(call.back.calls) = inner.calls
             /\ call.back.tag = inner.tag
             /\ call.back.path = inner.path
             /\ inner.tag = "Ok" =>
                  call.back.val = Utf8LossyDeserialization(inner.val)
             /\ inner.tag = "Err" => call.back.val = inner.val

C13_Witness ==
    /\ call.op = "deserialize_from_document"
    /\ call.arg.kind = "Utf8LossyDeserialization"
    /\ call.arg.kids[1].name = "Bar"
    /\ call.arg.kids[1].kids[1].kind = "str"
    /\ call.ty.kids[1].kids[1].kind = "u64"
    /\ Len(call.out.calls) = 4
    /\ call.back.tag = "Err"
    /\ call.back.path = <<"value">>

\* The names of the fields on the way from the root to a child position.
RECURSIVE FieldPath(_, _)
FieldPath(root, pos) ==
    IF pos = <<>> THEN <<>>
    ELSE (IF root.kind = "struct" THEN <<root.keys[Head(pos)]>> ELSE <<>>)
           \o FieldPath(root.kids[Head(pos)], Tail(pos))

\* Path::to_string: the field names joined by dots.
RECURSIVE Dotted(_)
Dotted(path) ==
    IF path = <<>> THEN ""
    ELSE IF Len(path) = 1 THEN path[1]
    ELSE path[1] \o "." \o Dotted(Tail(path))

\* C14: a deserialization that fails inside a nested structure reports the
\* dot-separated path, from the root, of the field being processed when it
\* failed, and no field processed before it: {one: {value: 42}, two:
\* {value: "hello"}} read as Foo { one: Bar { value: u64 }, two: Bar }
\* fails with the path "two.value", from a Document and from bytes alike.
C14_DeserializeErrorPath ==
    call.back.tag # "Pending" =>
      /\ call.back.tag = "Err" =>
           call.back.path
             = FieldPath(call.ty, call.back.calls[Len(call.back.calls)].pos)
      /\ (call.ty.name = "Foo"
            /\ call.arg.kids[1].kids[1].kind = "u64"
            /\ call.arg.kids[2].kids[1].kind = "str"
            /\ call.ty.kids[2].kids[1].kind = "u64") =>
           /\ call.back.tag = "Err"
           /\ Dotted(call.back.path) = "two.value"

C14_Witness ==
    /\ call.op = "deserialize_from_slice"
    /\ call.ty.name = "Foo"
    /\ call.arg.kids[1].kids[1].kind = "u64"
    /\ call.arg.kids[1].kids[1].n = {1, 3, 5}
    /\ call.arg.kids[2].kids[1].kind = "str"
    /\ call.ty.kids[2].kids[1].kind = "u64"
    /\ call.back.tag = "Err"
    /\ Dotted(call.back.path) = "two.value"

\* C15: serializing Foo { one: Bar { value: 42 }, two: Bar { value:
\* u64::MAX } } fails, to a Bson value and to bytes alike, with the path
\* "two.value": a u64 above i64::MAX is what fails, the path is that of its
\* field, and the representable sibling before it is serialized.
C15_SerializeErrorPath ==
    call.out.tag # "Pending" =>
      LET last == call.out.calls[Len(call.out.calls)]
      IN  /\ call.out.tag = "Err" =>
               /\ last.call = "serialize_u64"
               /\ Less(I64_MAX, last.n)
               /\ call.out.path = FieldPath(call.arg, last.pos)
          /\ (\E k \in 1 .. Len(call.out.calls) :
                /\ call.out.calls[k].call = "serialize_u64"
                /\ Less(I64_MAX, call.out.calls[k].n)) => call.out.tag = "Err"
          /\ (call.arg.name = "Foo"
                /\ call.arg.kids[1].kids[1].kind = "u64"
                /\ call.arg.kids[1].kids[1].n = {1, 3, 5}
                /\ call.arg.kids[2].kids[1].kind = "u64"
                /\ call.arg.kids[2].kids[1].n = U64_MAX) =>
               /\ call.out.tag = "Err"
               /\ Dotted(call.out.path) = "two.value"
               /\ \E k \in 1 .. Len(call.out.calls) :
                    /\ call.out.calls[k].call = "serialize_u64"
                    /\ call.out.calls[k].pos = <<1, 1>>

C15_Witness ==
    /\ call.op = "serialize_to_vec"
    /\ call.arg.name = "Foo"
    /\ call.arg.kids[1].kids[1].kind = "u64"
    /\ call.arg.kids[1].kids[1].n = {1, 3, 5}
    /\ call.arg.kids[2].kids[1].kind = "u64"
    /\ call.arg.kids[2].kids[1].n = U64_MAX
    /\ call.out.tag = "Err"
    /\ Dotted(call.out.path) = "two.value"

(***************************************************************************)
(* Claims about decoding from bytes (checked under SpecDecode)             *)
(***************************************************************************)

\* C16, as stated: a buffer whose declared length is not its length is
\* rejected before anything else is read, and the 14 bytes of
\* fuzz_regression_00, whose declared length is said to be 227, are.
C16_DeclaredLength227 ==
    call.state # "Start" =>
      /\ (Len(call.arg) < 5
            \/ from_le_bytes(SubSeq(call.arg, 1, 4)) # Len(call.arg)) =>
           call.state = "Error" /\ call.stack = <<>>
      /\ call.arg = FuzzRegression00 =>
           /\ call.state = "Error"
           /\ Len(call.arg) = 14
           /\ from_le_bytes(SubSeq(call.arg, 1, 4)) = 227

\* C16, amended: a buffer whose declared length is not its length is
\* rejected with an error before any element is read (nothing outside the
\* buffer is read), and so are the 14 bytes of fuzz_regression_00, whose
\* length prefix, the little-endian int32 of the bytes 227, 0, 35, 4,
\* declares 69402851 bytes.
C16_LengthMismatchRejected ==
    call.state # "Start" =>
      /\ (Len(call.arg) < 5
            \/ from_le_bytes(SubSeq(call.arg, 1, 4)) # Len(call.arg)) =>
           call.state = "Error" /\ call.stack = <<>>
      /\ call.arg = FuzzRegression00 =>
           /\ call.state = "Error"
           /\ Len(call.arg) = 14
           /\ from_le_bytes(SubSeq(call.arg, 1, 4)) = 69402851

C16_Witness ==
    /\ call.op = "deserialize_from_slice"
    /\ call.arg = FuzzRegression00
    /\ call.state = "Error"

\* The bytes b are exactly one document: the prefix declares their length,
\* the elements fill them up to the terminator, which is the last byte,
\* and every embedded document or array is exactly one document too.
RECURSIVE WellFormed(_)
WellFormed(b) ==
    LET RECURSIVE elements(_)
        elements(i) ==
          IF i = Len(b) THEN TRUE
          ELSE IF i > Len(b) \/ b[i] \notin {2, 3, 4, 16} THEN FALSE
          ELSE LET nulls == {j \in (i + 1) .. Len(b) : b[j] = 0}
                   k == SetMin(nulls)
                   n == from_le_bytes(SubSeq(b, k + 1, k + 4))
               IN  IF nulls = {} \/ k + 4 >= Len(b) THEN FALSE
                   ELSE IF b[i] = 16 THEN elements(k + 5)
                   ELSE IF b[i] = 2
                   THEN n >= 1 /\ k + 4 + n < Len(b) /\ b[k + 4 + n] = 0
                          /\ elements(k + 5 + n)
                   ELSE n >= 5 /\ k + n < Len(b)
                          /\ WellFormed(SubSeq(b, k + 1, k + n))
                          /\ elements(k + 1 + n)
    IN  /\ Len(b) >= 5
        /\ from_le_bytes(SubSeq(b, 1, 4)) = Len(b)
        /\ b[Len(b)] = 0
        /\ elements(5)

\* C17: the Deserializer reaches Complete only when the buffer is exactly
\* one document, every byte of it consumed; when bytes are left inside a
\* document or an array after its elements and terminator, or lie beyond
\* the declared length, the decoding ends in an error and not in Complete.
C17_CompleteOnlyWhenConsumed ==
    /\ call.state = "Complete" => WellFormed(call.arg) /\ call.stack = <<>>
    /\ call.state = "Error" => ~WellFormed(call.arg)
    /\ call.state = "Reading" =>
         /\ call.stack # <<>>
         /\ \A k \in 1 .. Len(call.stack) : call.stack[k].it.valid

C17_Witness ==
    /\ call.state = "Error"
    /\ Len(call.stack) = 2
    /\ call.stack[2].doc = <<6, 0, 0, 0, 0, 0>>
    /\ from_le_bytes(SubSeq(call.arg, 1, 4)) = Len(call.arg)

(***************************************************************************)
(* Claims about arrays over foreign bytes (checked under SpecView)         *)
(***************************************************************************)

\* C18: over a buffer of N valid elements followed by an invalid one, the
\* array is constructed all the same, and its iterator yields the N values,
\* then one error, and from then on None, whatever follows the invalid
\* element; without an invalid element it yields the N values and ends.
C18_LazyIteration ==
    /\ call.op = "from_bytes: error" =>
         ~call.bad /\ from_le_bytes(SubSeq(call.arg, 1, 4)) # Len(call.arg)
    /\ call.op = "from_raw_document_buf" => array.inner = call.arg
    /\ (iter.active /\ iter.doc = call.arg) =>
         LET y == iter.yielded
             n == Len(pushed)
             all == IF call.bad THEN n + 1 ELSE n
         IN  /\ Len(y) <= all
             /\ \A k \in 1 .. Len(y) :
                  IF k <= n THEN y[k] = [kind |-> "Ok", value |-> pushed[k]]
                  ELSE y[k].kind = "Err"
             /\ iter.ended => Len(y) = all
             /\ Len(y) = all =>
                  RawArrayIter_next(iter.doc, iter.it).item.kind = "None"

C18_Witness ==
    /\ call.op = "from_raw_document_buf"
    /\ call.bad
    /\ iter.active /\ iter.ended
    /\ Len(pushed) = 2
    /\ Len(iter.yielded) = 3
    /\ iter.yielded[2].kind = "Ok"
    /\ iter.yielded[3].kind = "Err"
    /\ SubSeq(call.arg, Len(call.arg) - 7, Len(call.arg))
         = <<16, 121, 0, 12, 0, 0, 0, 0>>

\* A typed value with a null byte in a document key, at any depth.
RECURSIVE NullInKey(_)
NullInKey(val) ==
    \/ /\ val.type = "Document"
       /\ \E k \in 1 .. Len(val.keys) : \E j \in 1 .. Len(val.keys[k]) :
            val.keys[k][j] = 0
    \/ \E k \in 1 .. Len(val.vals) : NullInKey(val.vals[k])

\* C19: when every element of a typed Array converts, try_from returns an
\* array whose len is the number of elements and whose iteration yields,
\* materialized, the elements of the Array in their order.
C19_TryFromRoundTrip ==
    (/\ call.result.tag # "Pending"
     /\ \A k \in 1 .. Len(call.arg.vals) : ~NullInKey(call.arg.vals[k]))
    => LET items == Elements(call.result.val.inner, RawIter_new)
       IN  /\ call.result.tag = "Ok"
           /\ call.result.val.len = Len(call.arg.vals)
           /\ Len(items) = Len(call.arg.vals)
           /\ \A k \in 1 .. Len(items) :
                /\ items[k].kind = "Ok"
                /\ to_bson(items[k].value) = call.arg.vals[k]

C19_Witness ==
    /\ call.op = "try_from" /\ call.result.tag = "Ok"
    /\ Len(call.arg.vals) = 2
    /\ call.arg.vals[1].type = "Document" /\ Len(call.arg.vals[1].vals) = 2
    /\ call.arg.vals[2].type = "Array"
    /\ call.result.val.len = 2

\* C20: try_from fails exactly when an element has a null byte in a key;
\* it fails at the first such element, with the elements before it
\* converted, none after it processed, and no array returned.
C20_TryFromFailsAtFirstError ==
    LET bad == {k \in 1 .. Len(call.arg.vals) : NullInKey(call.arg.vals[k])}
    IN  /\ call.result.tag = "Ok" => bad = {}
        /\ call.result.tag = "Err" =>
             /\ bad # {}
             /\ \A k \in bad : Len(pushed) + 1 <= k
             /\ Len(pushed) + 1 \in bad
             /\ call.result.val = new
        /\ \A k \in 1 .. Len(pushed) :
             try_into(call.arg.vals[k]) = [tag |-> "Ok", val |-> pushed[k]]
        /\ \A k \in bad : Len(pushed) < k

C20_Witness ==
    /\ call.op = "try_from" /\ call.result.tag = "Err"
    /\ Len(call.arg.vals) = 2
    /\ Len(pushed) = 0
    /\ NullInKey(call.arg.vals[1]) /\ call.arg.vals[1].type = "Array"
    /\ ~NullInKey(call.arg.vals[2])

(***************************************************************************)
(* Claims about the builder however built (SpecBuilder, SpecFromIter)      *)
(***************************************************************************)

\* C21: in every state reached through new, push, FromIterator and
\* TryFrom<Array> the count len is the number of elements encoded in the
\* buffer and the length prefix is the byte length; and every step either
\* leaves the builder as it was or adds exactly one element, adds one to the
\* count and updates the prefix.
C21_CountMatchesBuffer ==
    /\ [](LET es == ArrayElements
          IN  /\ array.len = Len(es)
              /\ \A k \in 1 .. Len(es) : es[k].kind = "Ok"
              /\ from_le_bytes(SubSeq(array.inner, 1, 4)) = Len(array.inner))
    /\ [][\/ array' = array
          \/ /\ array'.len = array.len + 1
             /\ Len(Elements(array'.inner, RawIter_new)) = Len(ArrayElements) + 1
             /\ Len(array'.inner) > Len(array.inner)
             /\ from_le_bytes(SubSeq(array'.inner, 1, 4)) = Len(array'.inner)]_vars

\* C21 witness: an array of two elements, the second a document, returned
\* by from_iter or try_from.
C21_Witness ==
    /\ call.op \in {"try_from", "from_iter"}
    /\ array.len = 2 /\ Len(ArrayElements) = 2
    /\ ArrayElements[2].value.type = "Document"
    /\ call.result.tag = "Ok"

\* C28: a push leaves the bytes of the elements pushed before it where they
\* were; the new element follows them, right before the terminator, under
\* the next key; only the 4-byte length prefix differs besides.
C28_PushAppendOnly ==
    [][array' # array =>
         LET old == array.inner
             now == array'.inner
             v == pushed'[Len(pushed')]
             added == <<element_type(v)>> \o to_string(array.len) \o <<0>>
                        \o value_bytes(v)
             es == Elements(now, RawIter_new)
         IN  /\ pushed' = Append(pushed, v)
             /\ SubSeq(now, 5, Len(old) - 1) = SubSeq(old, 5, Len(old) - 1)
             /\ SubSeq(now, Len(old), Len(now) - 1) = added
             /\ now[Len(now)] = 0
             /\ Len(now) = Len(old) + Len(added)
             /\ SubSeq(es, 1, Len(es) - 1) = ArrayElements
             /\ es[Len(es)].value = v]_vars

\* C28 witness: a string pushed after a document that holds an element.
C28_Witness ==
    /\ array.len = 2 /\ Len(pushed) = 2
    /\ pushed[1].type = "Document" /\ Len(pushed[1].s) > 5
    /\ pushed[2].type = "String"

\* C30: collecting an iterator gives the array that pushing its items in
\* order onto new() gives, with the same bytes and the same count; the
\* array collected from an empty iterator is new() and default().
C30_CollectEqualsPushes ==
    LET RECURSIVE Pushes(_)
        Pushes(items) ==
          IF items = <<>> THEN new
          ELSE push(Pushes(SubSeq(items, 1, Len(items) - 1)), items[Len(items)])
    IN  call.result.tag = "Ok" =>
          /\ call.result.val = Pushes(call.arg)
          /\ call.result.val.inner = Pushes(call.arg).inner
          /\ call.result.val.len = Len(call.arg)
          /\ call.arg = <<>> => call.result.val = new /\ call.result.val = default

\* C30 witness: two different items collected.
C30_Witness ==
    /\ call.op = "from_iter" /\ call.result.tag = "Ok"
    /\ Len(call.arg) = 2 /\ call.arg[1] # call.arg[2]
    /\ call.arg[1].type = "Array"
    /\ call.result.val.len = 2

(***************************************************************************)
(* Claims about arrays over given bytes (checked under SpecView)           *)
(***************************************************************************)

\* C29: from_raw_document_buf(doc) sets len to the number of elements
\* encoded in doc, an error item at the end of the iteration not being
\* counted, so that the next push is keyed with that number.
C29_CountIsNumberOfElements ==
    call.op = "from_raw_document_buf" =>
      LET items == Elements(call.arg, RawIter_new)
          elements == SelectSeq(items, LAMBDA i : i.kind = "Ok")
          next == Elements(push(array, Int32(12)).inner, RawIter_new)
      IN  /\ array.len = Len(elements)
          /\ call.bad <=> Len(items) = Len(elements) + 1
          /\ ~call.bad =>
               /\ Len(next) = Len(elements) + 1
               /\ next[Len(next)].key = to_string(Len(elements))

(***************************************************************************)
(* Claims about u32_as_f64 and the round trips (checked under SpecF64)     *)
(***************************************************************************)

\* C23: u32_as_f64::serialize succeeds for every u32 and
\* u32_as_f64::deserialize of the double it emits returns the u32; for every
\* u64 that u64_as_f64::serialize accepts, u64_as_f64::deserialize of the
\* double emitted returns exactly that u64.
C23_UnsignedF64RoundTrip ==
    /\ "u32_as_f64::serialize" \in {call.op, call.via} =>
         /\ call.out.tag = "Ok"
         /\ call.out.method = "serialize_f64"
         /\ call.out.val = Fin(FALSE, call.arg.v)
    /\ call.via \in {"u32_as_f64::serialize", "u64_as_f64::serialize"} =>
         call.back = Ok("return", call.arg.v)

\* C23 witness: u32::MAX, and 2^63, emitted and read back.
C23_Witness ==
    /\ call.via \in {"u32_as_f64::serialize", "u64_as_f64::serialize"}
    /\ call.arg.v \in {U32_MAX, {63}}
    /\ call.back.tag = "Ok"

\* C24: u32_as_f64::deserialize returns Ok(n) for the doubles equal to an
\* integer n of 0..=u32::MAX and an error for every other double: a
\* fractional part however small, a negative value, a value above u32::MAX,
\* NaN or an infinity.
C24_U32DeserializeExactOnly ==
    (call.op = "u32_as_f64::deserialize" /\ call.arg.kind = "f64"
       /\ call.arg.got.tag = "Ok") =>
      LET f == call.arg.got.val
          exact == /\ f.cls = "fin"
                   /\ \A p \in f.mag : p >= 0 /\ p <= 31
                   /\ f.neg => f.mag = {}
      IN  IF exact THEN call.back = Ok("return", f.mag)
          ELSE call.back.tag = "Err"

(***************************************************************************)
(* Further claims about the timestamp helpers (checked under SpecTs)       *)
(***************************************************************************)

\* C25: u32_as_timestamp::serialize of a u32 v emits a Timestamp, never an
\* integer, with time v and increment 0, and u32_as_timestamp::deserialize
\* of that Timestamp returns v.
C25_U32AsTimestampRoundTrip ==
    /\ "u32_as_timestamp::serialize" \in {call.op, call.via} =>
         /\ call.arg.kind = "u32"
         /\ call.out.tag = "Ok"
         /\ call.out.method = "serialize_timestamp"
         /\ call.out.val = Timestamp(call.arg.v, {})
    /\ call.via = "u32_as_timestamp::serialize" =>
         call.back = Ok("return", call.arg.v)

\* C25 witness: u32::MAX emitted as a Timestamp and read back.
C25_Witness ==
    /\ call.op = "u32_as_timestamp::deserialize"
    /\ call.via = "u32_as_timestamp::serialize"
    /\ call.arg.v = U32_MAX
    /\ call.out.val.time = U32_MAX
    /\ call.back.tag = "Ok"

(***************************************************************************)
(* Claims about the date-time adapters (checked under SpecDateTime)        *)
(***************************************************************************)

\* C26: datetime::FromI64 serializes every i64 m, i64::MIN and i64::MAX
\* included, as the DateTime of m milliseconds and deserializes that
\* DateTime to m, also when m has no RFC 3339 string; and for such an m
\* datetime::AsRfc3339String returns an error and emits no string.
C26_FromI64TotalAndLossless ==
    LET no_string == \/ SLess(call.arg.v, RFC3339_MIN)
                     \/ SLess(RFC3339_MAX, call.arg.v)
    IN  /\ "datetime::FromI64::serialize_as" \in {call.op, call.via} =>
             /\ call.out.tag = "Ok"
             /\ call.out.method = "serialize_datetime"
             /\ deserialize_datetime(call.out.val).val.millis = call.arg.v
        /\ call.via = "datetime::FromI64::serialize_as" =>
             call.back = Ok("return", call.arg.v)
        /\ (call.op = "datetime::AsRfc3339String::serialize_as" /\ no_string) =>
             call.out.tag = "Err" /\ call.out.method = "none"
        /\ (call.op = "datetime::AsRfc3339String::serialize_as" /\ ~no_string) =>
             call.out.method = "serialize_str"

\* C26 witness: i64::MIN, which has no RFC 3339 string, emitted and read
\* back.
C26_Witness ==
    /\ call.via = "datetime::FromI64::serialize_as"
    /\ call.arg.v = {63}
    /\ try_to_rfc3339_string(from_millis(call.arg.v)).tag = "Err"
    /\ call.out.val = <<0, 0, 0, 0, 0, 0, 0, 128>>
    /\ call.back.tag = "Ok"

====
